---- MODULE Spec2Model ----
(***************************************************************************)
(* Reconciliation core of opnsense-dyndns-hetzner.                         *)
(*                                                                         *)
(*   SpecRL     RateLimiter (ratelimit.py) used by concurrent callers,     *)
(*              with an explicit monotonic clock.                          *)
(*   SpecRetry  retry_with_backoff (retry.py) around an arbitrary          *)
(*              operation, for every max_retries up to a bound.            *)
(*   SpecSync   HetznerDNSClient.sync_a_records (hetzner.py) called        *)
(*              directly, as the unit tests do, with arbitrary inputs.     *)
(*   Spec       the main loop: run_update (main.py) driving sync, the      *)
(*              verifier and the annotation updater.                       *)
(*   SpecProbe  the health probe thread (health.py) using the client       *)
(*              beside the main thread.                                    *)
(*                                                                         *)
(* Time is counted in whole seconds.  In SpecSync, Spec and SpecProbe the  *)
(* limiter is represented by its lock (who may pass, who is blocked); its  *)
(* timing is the subject of SpecRL.                                        *)
(***************************************************************************)
EXTENDS Integers, Sequences, FiniteSets, TLC

VARIABLES
    \* ---- RateLimiter instance (ratelimit.py) ----
    clock,          \* time.monotonic()
    min_interval,   \* self.min_interval
    last_request,   \* self.last_request
    lock,           \* self._lock: "none" or the thread holding it
    rl_pc,          \* per caller: "idle" | "nosleep" | "sleep"
    rl_wake,        \* per caller: the time its time.sleep() may return
    waits,          \* history: <<[at, slept]>> one entry per wait() entered
    releases,       \* history: the times wait() let a caller through
    extraTime,      \* history: seconds that passed outside any sleep
    \* ---- retry_with_backoff wrapper (retry.py) ----
    r_max,          \* max_retries
    r_has_pred,     \* should_retry is not None
    r_max_delay,    \* max_delay
    r_attempt,      \* loop variable attempt
    r_pc,           \* "call" | "sleep" | "returned" | "raised"
    r_delay,        \* delay of the pending sleep, in 1 / (2 * JitterSteps) s
    r_hist,         \* history: outcome of every invocation of func
    r_sleeps,       \* history: number of time.sleep calls
    r_raised,       \* history: index of the invocation whose exception was raised
    \* ---- the DNS provider (Hetzner zone) and the errors it answers with ----
    provider,       \* hostname -> the A RRSet held for it
    zoneExists,     \* the configured zone name resolves to a zone
    p_codes,        \* the APIException codes the provider may answer with
    \* ---- HetznerDNSClient (hetzner.py) ----
    zone_cache,     \* config.zone in self._zone_cache
    zone_lookups,   \* history: the calls of zones.get_all that found the zone
    pc,             \* per thread: where it stands
    token,          \* history, per thread: "fresh" after its wait(), "none"
                    \* after its provider call, "crossed" when another
                    \* thread's provider call came after its wait()
    \* ---- one sync_a_records invocation, wrapper included ----
    s_hostname, s_desired, s_dry,   \* the arguments
    s_attempt,      \* the wrapper's loop variable
    s_rrset,        \* local rrset
    exc,            \* the exception the wrapper is backing off from
    result,         \* what the wrapped call gave its caller
    s_entry,        \* history: the provider's RRSet when the call started
    s_muts,         \* history: the mutating calls issued, in order
    s_fail,         \* history: a provider call failed or the zone was missing
    s_invocations,  \* history: how often the wrapper invoked the function
    s_api,          \* history: the kinds of provider calls the call has made
    s_took,         \* history: a mutating call of the call took effect
    s_calls,        \* number of direct calls made (SpecSync)
    \* ---- main loop and run_update (main.py) ----
    cfg_dry_run,    \* the dry_run handed to run_update
    kubernetes,     \* config.kubernetes: "absent" (the Config class declares
                    \* no such field), or "disabled" / "enabled" for a
                    \* configuration object that carries one
    interface_ips,  \* local interface_ips: interface -> address, 0 if absent
    idx,            \* index of the record being processed
    iteration,      \* main's iteration counter
    c_start,        \* history: the provider's records when the cycle began
    c_fail,         \* history: the fetch or a provider call failed this cycle
    c_fetch,        \* history: "none" | "failed" | "empty" | "ok", the fetch
    c_seen,         \* history: the records the loop has reached, in order
    c_last,         \* history: the record of the latest call made, 0 if none
    c_touched,      \* history: the records a provider call was made for
    c_slept,        \* history: the records the verify delay was slept for
    c_verify,       \* history, per record: the calls of verify_a_records
    c_k8s,          \* history, per record: the calls of the annotation updater
    c_caught,       \* history, per record: the exception caught, "none" if none
    c_done,         \* history: how many calls of run_update have returned
    c_changed,      \* history: the records whose sync returned True
    c_prev,         \* history: the call of run_update before this one: the
                    \* mapping it went on with and whether all its calls succeeded
    \* ---- main (main.py) ----
    should_exit,    \* shutdown.should_exit
    once,           \* args.once
    cfg_interval,   \* config.settings.interval
    sleep_left,     \* passes left in the inter-cycle sleep loop
    exit_code,      \* -1 while the process runs
    health_server,  \* the health server has been started
    sig_at,         \* history: where main stood when the first signal came,
                    \* and how many time.sleep(1) have returned since
    config_loaded,  \* history: "none" | "yes" | "no", load_config_auto's end
    \* ---- health probe thread (health.py) ----
    probes,         \* requests served or in service
    h_response,     \* status of the last response, 0 before any
    h_call,         \* history of the request in hand: its route, what the
                    \* router's health check gave, what hetzner.health_check
                    \* returned, whether the zone existed at the provider
                    \* when it returned, its zone lookups and their failure
    \* ---- one OPNsenseClient.get_interface_ips call (opnsense.py) ----
    g_pc,           \* "idle" | "loop" | "returned" | "raised"
    g_status,       \* what the GET gave: "none" | "transport" | "non2xx" |
                    \* "undecodable" | "ok"
    interface_data, \* local interface_data: provider-side name -> its entry
    g_i,            \* position of the for loop in config.interfaces.items()
    g_result,       \* local result: logical name -> address
    g_gets,         \* history: GET requests sent to the router
    g_calls,        \* history: calls of get_interface_ips
    \* ---- one verify_a_records call (verify.py) ----
    v_pc,           \* "idle" | "ns" | "query" | "returned" | "raised"
    expected_ips,   \* the argument expected_ips
    v_conf,         \* dns.resolver.Resolver() can read the resolver configuration
    v_ns,           \* per Hetzner nameserver: its name resolves
    v_i,            \* position of the for loop in HETZNER_NAMESERVERS
    ns_ips,         \* local ns_ips: the nameservers resolved so far
    v_query,        \* history: what the A query gave, "none" before it
    v_ret           \* what verify_a_records returned

rlVars == <<clock, min_interval, last_request, lock, rl_pc, rl_wake, waits,
            releases, extraTime>>
retryVars == <<r_max, r_has_pred, r_max_delay, r_attempt, r_pc, r_delay,
               r_hist, r_sleeps, r_raised>>
envVars == <<zoneExists, p_codes>>
zoneVars == <<zone_cache, zone_lookups>>
syncVars == <<s_hostname, s_desired, s_dry, s_attempt, s_rrset, exc, result,
              s_entry, s_muts, s_fail, s_invocations, s_api, s_took>>
cycleVars == <<cfg_dry_run, kubernetes, interface_ips, idx, iteration,
               c_start, c_fail>>
histVars == <<c_fetch, c_seen, c_last, c_touched, c_slept, c_verify, c_k8s,
              c_caught, c_done, c_changed, c_prev>>
loopVars == <<should_exit, once, cfg_interval, sleep_left, exit_code,
              health_server, sig_at, config_loaded>>
healthVars == <<probes, h_response, h_call>>
routerVars == <<g_pc, g_status, interface_data, g_i, g_result, g_gets, g_calls>>
verifyVars == <<v_pc, expected_ips, v_conf, v_ns, v_i, ns_ips, v_query, v_ret>>
fnVars == <<routerVars, verifyVars>>
progVars == <<provider, envVars, zoneVars, pc, token, syncVars, s_calls,
              cycleVars, healthVars, histVars, loopVars>>
coreVars == <<progVars, fnVars>>
vars == <<rlVars, retryVars, fnVars, coreVars>>

\* ------------------------------------------------------------------ bounds
MaxClock == 6
MaxCalls == 3
MaxRetriesBound == 3
NumIPs == 2
MaxLen == 2
MaxSyncCalls == 2
MaxCycles == 1
MaxProbes == 1
MaxInterval == 2
MaxRouterCalls == 2

\* --------------------------------------------------------------- utilities
Min(a, b) == IF a < b THEN a ELSE b

RECURSIVE Pow2(_)
Pow2(n) == IF n = 0 THEN 1 ELSE 2 * Pow2(n - 1)

Threads == {"main", "health"}

\* ======================================================================
\* RateLimiter
\* ======================================================================

\* The rates the limiter is constructed with: the client's 30 / minute
\* (hetzner.py:62), and the tests' 60 / minute; 20 gives a 3 s interval.
RpmChoices == {20, 30, 60}

\* self.min_interval = 60.0 / requests_per_minute
MinInterval(requests_per_minute) == 60 \div requests_per_minute

\* __init__: "Ensure first request doesn't wait"
InitialLastRequest(now, interval) == now - interval

\* with self._lock: the lock can be taken
LockFreeUnsafe == TRUE
LockFree == lock = "none"

\* elapsed = now - self.last_request; the argument of time.sleep, 0 for no sleep
SleepTimeFull(now, last, interval) ==
    IF now - last < interval THEN interval ELSE 0
SleepTime(now, last, interval) ==
    IF now - last < interval THEN interval - (now - last) ELSE 0

InitLimiter ==
    /\ clock = 0
    /\ min_interval \in {MinInterval(rpm) : rpm \in RpmChoices}
    /\ last_request = InitialLastRequest(clock, min_interval)
    /\ lock = "none"
    /\ rl_pc = [t \in Threads |-> "idle"]
    /\ rl_wake = [t \in Threads |-> 0]
    /\ waits = <<>>
    /\ releases = <<>>
    /\ extraTime = 0

IdleLimiter ==
    /\ clock = 0
    /\ min_interval = MinInterval(30)
    /\ last_request = InitialLastRequest(clock, min_interval)
    /\ lock = "none"
    /\ rl_pc = [t \in Threads |-> "idle"]
    /\ rl_wake = [t \in Threads |-> 0]
    /\ waits = <<>>
    /\ releases = <<>>
    /\ extraTime = 0

\* wait(), lines 30-34: take the lock, read the clock, start sleeping if the
\* last request is too recent.  A caller finding the lock taken is blocked.
WaitEnter(t) ==
    /\ rl_pc[t] = "idle"
    /\ Len(waits) < MaxCalls
    /\ LockFree
    /\ lock' = t
    /\ LET s == SleepTime(clock, last_request, min_interval) IN
         /\ rl_pc' = [rl_pc EXCEPT ![t] = IF s > 0 THEN "sleep" ELSE "nosleep"]
         /\ rl_wake' = [rl_wake EXCEPT ![t] = clock + s]
         /\ waits' = Append(waits, [at |-> clock, slept |-> s])
    /\ UNCHANGED <<clock, min_interval, last_request, releases, extraTime>>

\* wait(), line 35 and the end of the with block: once the sleep is over,
\* stamp the time of this request and release the lock.
WaitExit(t) ==
    /\ \/ rl_pc[t] = "nosleep"
       \/ rl_pc[t] = "sleep" /\ clock >= rl_wake[t]
    /\ last_request' = clock
    /\ releases' = Append(releases, [at |-> clock, by |-> t])
    /\ lock' = "none"
    /\ rl_pc' = [rl_pc EXCEPT ![t] = "idle"]
    /\ UNCHANGED <<clock, min_interval, rl_wake, waits, extraTime>>

Sleeping == \E t \in Threads : rl_pc[t] = "sleep" /\ clock < rl_wake[t]

\* One second passes.
Tick ==
    /\ clock < MaxClock
    /\ clock' = clock + 1
    /\ extraTime' = IF Sleeping THEN extraTime ELSE extraTime + 1
    /\ UNCHANGED <<min_interval, last_request, lock, rl_pc, rl_wake, waits, releases>>

\* ======================================================================
\* retry_with_backoff
\* ======================================================================

\* What one invocation of func does: return, raise an exception of a type in
\* retryable_exceptions for which should_retry answers true or false, or
\* raise an exception of another type.
Outcomes == {"ok", "retryable", "nonretryable", "unlisted"}

\* Defaults of retry_with_backoff
base_delay == 1
default_max_delay == 60
JitterSteps == 10

\* wrapper, lines 44-62: what follows an exception raised by func.
\*   "propagate"  the exception leaves the wrapper at once
\*   "sleep"      sleep, then the next attempt
\*   "exhausted"  the loop ends and last_exception is raised
RetryDecisionAlways(listed, has_pred, pred, attempt, max_retries) ==
    IF ~listed THEN "propagate"
    ELSE IF attempt < max_retries THEN "sleep"
    ELSE "exhausted"
RetryDecision(listed, has_pred, pred, attempt, max_retries) ==
    IF ~listed THEN "propagate"
    ELSE IF has_pred /\ ~pred THEN "propagate"
    ELSE IF attempt < max_retries THEN "sleep"
    ELSE "exhausted"

\* lines 52-53, in units of 1 / (2 * JitterSteps) second:
\* min(base_delay * 2**attempt, max_delay) * (0.5 + random.random()),
\* random.random() in [0, 1) being j / JitterSteps, j in 0..JitterSteps-1.
BackoffDelayFromOne(attempt, max_delay, j) ==
    Min(base_delay * Pow2(attempt + 1), max_delay) * (JitterSteps + 2 * j)
BackoffDelay(attempt, max_delay, j) ==
    Min(base_delay * Pow2(attempt), max_delay) * (JitterSteps + 2 * j)

InitRetry ==
    /\ r_max \in 0..MaxRetriesBound
    /\ r_has_pred \in BOOLEAN
    /\ r_max_delay \in {4, default_max_delay}
    /\ r_attempt = 0
    /\ r_pc = "call"
    /\ r_delay = 0
    /\ r_hist = <<>>
    /\ r_sleeps = 0
    /\ r_raised = 0

IdleRetry ==
    /\ r_max = 0
    /\ r_has_pred = FALSE
    /\ r_max_delay = default_max_delay
    /\ r_attempt = 0
    /\ r_pc = "returned"
    /\ r_delay = 0
    /\ r_hist = <<>>
    /\ r_sleeps = 0
    /\ r_raised = 0

\* One pass of the for loop up to the sleep: call func, and on an exception
\* decide between raising, sleeping and leaving the loop.
RetryCall ==
    /\ r_pc = "call"
    /\ \E o \in Outcomes, j \in 0..(JitterSteps - 1) :
         /\ r_hist' = Append(r_hist, o)
         /\ IF o = "ok"
            THEN /\ r_pc' = "returned"
                 /\ UNCHANGED <<r_delay, r_raised>>
            ELSE LET d == RetryDecision(o # "unlisted", r_has_pred,
                                        o = "retryable", r_attempt, r_max)
                 IN IF d = "sleep"
                    THEN /\ r_pc' = "sleep"
                         /\ r_delay' = BackoffDelay(r_attempt, r_max_delay, j)
                         /\ UNCHANGED r_raised
                    ELSE /\ r_pc' = "raised"
                         /\ r_raised' = Len(r_hist) + 1
                         /\ UNCHANGED r_delay
    /\ UNCHANGED <<r_max, r_has_pred, r_max_delay, r_attempt, r_sleeps>>

\* time.sleep(delay), then the next pass of the loop.
RetrySleep ==
    /\ r_pc = "sleep"
    /\ r_sleeps' = r_sleeps + 1
    /\ r_attempt' = r_attempt + 1
    /\ r_delay' = 0
    /\ r_pc' = "call"
    /\ UNCHANGED <<r_max, r_has_pred, r_max_delay, r_hist, r_raised>>

\* ======================================================================
\* The DNS provider and its errors
\* ======================================================================

IPs == 1..NumIPs

\* config.records: two records, one depending on a single interface
Interfaces == {"wan", "wan2"}
Records == << [hostname |-> "home", interfaces |-> <<"wan">>],
              [hostname |-> "multi", interfaces |-> <<"wan", "wan2">>] >>
Hostnames == {Records[i].hostname : i \in DOMAIN Records}
\* config.kubernetes.trigger_hostname
trigger_hostname == "home"

\* An A RRSet as get_rrset_all gives it: absent, or present with its records
\* (a present RRSet may hold no record).
NoRRSet == [exists |-> FALSE, records |-> {}]
RRSet(S) == [exists |-> TRUE, records |-> S]
RRStates == {NoRRSet} \cup {RRSet(S) : S \in SUBSET IPs}

SetOf(seq) == {seq[i] : i \in DOMAIN seq}

RECURSIVE SortedSeq(_)
\* sorted(set(...)): the elements of S in increasing order
SortedSeq(S) ==
    IF S = {} THEN <<>>
    ELSE LET m == CHOOSE x \in S : \A y \in S : x <= y
         IN <<m>> \o SortedSeq(S \ {m})

RECURSIVE InsertSorted(_, _)
InsertSorted(x, seq) ==
    IF seq = <<>> THEN <<x>>
    ELSE IF x <= Head(seq) THEN <<x>> \o seq
    ELSE <<Head(seq)>> \o InsertSorted(x, Tail(seq))

RECURSIVE Sorted(_)
\* sorted(list): duplicates kept
Sorted(seq) == IF seq = <<>> THEN <<>> ELSE InsertSorted(Head(seq), Sorted(Tail(seq)))

\* The lists of at most MaxLen addresses, duplicates and any order included
DesiredLists == UNION {[1..n -> IPs] : n \in 0..MaxLen}

\* RETRYABLE_STATUS_CODES
RETRYABLE_STATUS_CODES == {429, 500, 502, 503, 504}

\* Python's None, as a status
None == -1

\* APIException.code is an int or a string; a string is a sequence of
\* characters, the digits 0..9 standing for themselves and 10 for any
\* other character.
IntCode(n) == [kind |-> "int", val |-> n, chars |-> <<>>]
StrCode(cs) == [kind |-> "str", val |-> 0, chars |-> cs]
NoCode == [kind |-> "none", val |-> 0, chars |-> <<>>]

AllCodes ==
    {IntCode(n) : n \in RETRYABLE_STATUS_CODES \cup {404}}
        \cup {StrCode(<<5, 0, 3>>), StrCode(<<10, 10>>), NoCode}
FewCodes == {IntCode(429), IntCode(404)}

RECURSIVE DigitsValue(_)
DigitsValue(cs) ==
    IF cs = <<>> THEN 0
    ELSE 10 * DigitsValue(SubSeq(cs, 1, Len(cs) - 1)) + cs[Len(cs)]

\* int(status_code), None on ValueError
ParseInt(cs) ==
    IF cs # <<>> /\ \A i \in DOMAIN cs : cs[i] \in 0..9
    THEN DigitsValue(cs) ELSE None

\* HetznerAPIError.__init__: the status code, normalised
StatusCode(code) ==
    CASE code.kind = "str" -> ParseInt(code.chars)
      [] code.kind = "int" -> code.val
      [] OTHER -> None

NoExc == [type |-> "none", code |-> NoCode, status |-> None]
APIException(code) == [type |-> "APIException", code |-> code, status |-> None]
HetznerAPIError(code) ==
    [type |-> "HetznerAPIError", code |-> code, status |-> StatusCode(code)]
\* _get_zone: ValueError("Zone ... not found in Hetzner DNS")
ZoneNotFound == [type |-> "ValueError", code |-> NoCode, status |-> None]
\* an exception of the client library that is no APIException
OtherError == [type |-> "Other", code |-> NoCode, status |-> None]

\* _is_retryable
IsRetryableNever(e) == FALSE
IsRetryable(e) ==
    CASE e.type = "APIException" ->
            e.code.kind = "int" /\ e.code.val \in RETRYABLE_STATUS_CODES
      [] e.type = "HetznerAPIError" -> e.status \in RETRYABLE_STATUS_CODES
      [] OTHER -> FALSE

\* What a call to the provider can do: answer, fail with an APIException,
\* or fail with another exception.
CallOutcomes ==
    {[kind |-> "ok", code |-> NoCode]}
        \cup {[kind |-> "api", code |-> c] : c \in p_codes}
        \cup {[kind |-> "other", code |-> NoCode]}

\* except APIException as e: raise HetznerAPIError(..., status_code=e.code);
\* any other exception passes through.
Translate(o) == IF o.kind = "api" THEN HetznerAPIError(o.code) ELSE OtherError

\* ======================================================================
\* HetznerDNSClient
\* ======================================================================

\* @retry_with_backoff(max_retries=3, ...) on sync_a_records
sync_max_retries == 3

NoResult == [kind |-> "none", val |-> FALSE, exc |-> NoExc]
Returned(b) == [kind |-> "ret", val |-> b, exc |-> NoExc]
Raised(e) == [kind |-> "raise", val |-> FALSE, exc |-> e]

\* lines 157-159: the addresses of the RRSet read, none if absent or empty
CurrentIPsNone(rrset) == {}
CurrentIPs(rrset) == IF rrset.exists THEN rrset.records ELSE {}

\* lines 161-178: what sync does once it has read the RRSet
\*   "unchanged"  return False
\*   "dry"        return True without a call
\*   "mutate"     wait for the limiter, then one mutating call
SyncDecisionList(rrset, desired, dry_run) ==
    IF /\ CurrentIPs(rrset) = SetOf(desired)
       /\ Cardinality(CurrentIPs(rrset)) = Len(desired)
    THEN "unchanged"
    ELSE IF dry_run THEN "dry"
    ELSE "mutate"
SyncDecisionDryFalse(rrset, desired, dry_run) ==
    IF CurrentIPs(rrset) = SetOf(desired) \/ dry_run THEN "unchanged"
    ELSE "mutate"
SyncDecision(rrset, desired, dry_run) ==
    IF CurrentIPs(rrset) = SetOf(desired) THEN "unchanged"
    ELSE IF dry_run THEN "dry"
    ELSE "mutate"

\* lines 181-200: the mutating call chosen
MutationOpCreateOnly(rrset, desired) ==
    IF desired = <<>> THEN (IF rrset.exists THEN "delete" ELSE "none")
    ELSE "create"
MutationOp(rrset, desired) ==
    IF desired = <<>> THEN (IF rrset.exists THEN "delete" ELSE "none")
    ELSE IF rrset.exists THEN "replace"
    ELSE "create"

\* The provider's records once the call has taken effect
Applied(op, h, desired) ==
    CASE op = "delete" -> [provider EXCEPT ![h] = NoRRSet]
      [] op \in {"replace", "create"} ->
            [provider EXCEPT ![h] = RRSet(SetOf(Sorted(desired)))]
      [] OTHER -> provider

\* history of the tokens: t's wait() has let it through
TokensAfterWait(t) == [token EXCEPT ![t] = "fresh"]
\* history of the tokens: t has called the provider
TokensAfterCall(t) ==
    [u \in Threads |->
        IF u = t THEN "none"
        ELSE IF token[u] = "fresh" THEN "crossed" ELSE token[u]]

\* self._rate_limiter.wait(), entry: blocked while another thread is inside
WaitPcs == {"zone_wait", "rrset_wait", "mut_wait"}
HoldPcs == {"zone_hold", "rrset_hold", "mut_hold"}
HoldOf(p) ==
    CASE p = "zone_wait" -> "zone_hold"
      [] p = "rrset_wait" -> "rrset_hold"
      [] OTHER -> "mut_hold"
CallOf(p) ==
    CASE p = "zone_hold" -> "zone_call"
      [] p = "rrset_hold" -> "rrset_call"
      [] OTHER -> "mut_call"
CallPcs == {"zone_call", "rrset_call", "mut_call"}

LimiterAcquire(t) ==
    /\ pc[t] \in WaitPcs
    /\ LockFree
    /\ lock' = t
    /\ pc' = [pc EXCEPT ![t] = HoldOf(pc[t])]
    /\ UNCHANGED <<clock, min_interval, last_request, rl_pc, rl_wake, waits,
                   releases, extraTime, retryVars, fnVars>>
    /\ UNCHANGED <<provider, envVars, zoneVars, token, syncVars, s_calls,
                   cycleVars, healthVars>>
    /\ UNCHANGED <<histVars, loopVars>>

\* self._rate_limiter.wait(), exit: the caller is let through
LimiterRelease(t) ==
    /\ pc[t] \in HoldPcs
    /\ lock' = "none"
    /\ token' = TokensAfterWait(t)
    /\ pc' = [pc EXCEPT ![t] = CallOf(pc[t])]
    /\ UNCHANGED <<clock, min_interval, last_request, rl_pc, rl_wake, waits,
                   releases, extraTime, retryVars, fnVars>>
    /\ UNCHANGED <<provider, envVars, zoneVars, syncVars, s_calls,
                   cycleVars, healthVars>>
    /\ UNCHANGED <<histVars, loopVars>>

\* _get_zone, line 84: where the caller goes on a cache hit and on a miss
ZoneEntryMiss(hit, miss) == miss
ZoneEntry(hit, miss) == IF zone_cache THEN hit ELSE miss

\* _get_zone, lines 92-94: get_all has answered; an empty list raises
\* ValueError, otherwise the first zone is cached
ZoneFoundAlways(answered, exists) == answered
ZoneFound(answered, exists) == answered /\ exists

\* _get_a_rrset, line 109: the limiter comes before get_rrset_all
RRSetEntryNoWait == "rrset_call"
RRSetEntry == "rrset_wait"

\* run_update line 117: the k-th record the loop takes
RecordOrderReversed(k) == Len(Records) + 1 - k
RecordOrder(k) == k

\* The record run_update is at, 0 outside run_update
CurrentRecord == IF iteration > 0 THEN RecordOrder(idx) ELSE 0

\* history: the main thread has called the provider for the current record
ProviderCalled ==
    /\ c_touched' = IF iteration > 0 THEN c_touched \cup {CurrentRecord}
                     ELSE c_touched
    /\ c_last' = IF iteration > 0 THEN CurrentRecord ELSE c_last
    /\ UNCHANGED <<c_changed, c_fetch, c_seen, c_slept, c_verify, c_k8s, c_caught, c_done, c_prev>>

\* The wrapper, on an exception e raised by sync_a_records
SyncRaise(e) ==
    LET d == RetryDecision(e.type = "HetznerAPIError", TRUE, IsRetryable(e),
                           s_attempt, sync_max_retries)
    IN /\ pc' = [pc EXCEPT !["main"] = IF d = "sleep" THEN "backoff" ELSE "sync_done"]
       /\ exc' = IF d = "sleep" THEN e ELSE NoExc
       /\ result' = IF d = "sleep" THEN result ELSE Raised(e)
       /\ s_fail' = TRUE

\* The call sync_a_records(h, d, dry) enters the wrapper
StartSync(h, d, dry) ==
    /\ s_hostname' = h
    /\ s_desired' = d
    /\ s_dry' = dry
    /\ s_attempt' = 0
    /\ s_rrset' = NoRRSet
    /\ exc' = NoExc
    /\ result' = NoResult
    /\ s_entry' = provider[h]
    /\ s_muts' = <<>>
    /\ s_fail' = FALSE
    /\ s_invocations' = 0
    /\ s_api' = {}
    /\ s_took' = FALSE
    /\ pc' = [pc EXCEPT !["main"] = "sync_call"]

\* The call is over: its frame is gone
PopSync ==
    /\ s_hostname' = "home"
    /\ s_desired' = <<>>
    /\ s_dry' = FALSE
    /\ s_attempt' = 0
    /\ s_rrset' = NoRRSet
    /\ exc' = NoExc
    /\ result' = NoResult
    /\ s_entry' = NoRRSet
    /\ s_muts' = <<>>
    /\ s_fail' = FALSE
    /\ s_invocations' = 0
    /\ s_api' = {}
    /\ s_took' = FALSE

\* wrapper line 43 and sync line 154: the function is invoked and asks for
\* the zone; with the zone cached, _get_a_rrset's own _get_zone hits too.
SyncAttempt ==
    /\ pc["main"] = "sync_call"
    /\ s_invocations' = s_invocations + 1
    /\ pc' = [pc EXCEPT !["main"] = ZoneEntry(RRSetEntry, "zone_wait")]
    /\ UNCHANGED <<s_hostname, s_desired, s_dry, s_attempt, s_rrset, exc,
                   result, s_entry, s_muts, s_fail, s_api, s_took>>
    /\ UNCHANGED <<rlVars, retryVars, fnVars, provider, envVars, zoneVars, token, s_calls,
                   cycleVars, healthVars>>
    /\ UNCHANGED <<histVars, loopVars>>

\* _get_zone lines 87-95 in sync: get_all, then the cache is filled
ZoneLookupSync ==
    /\ pc["main"] = "zone_call"
    /\ token' = TokensAfterCall("main")
    /\ \E o \in CallOutcomes :
         IF ZoneFound(o.kind = "ok", zoneExists)
         THEN /\ zone_cache' = TRUE
              /\ zone_lookups' = zone_lookups + 1
              /\ pc' = [pc EXCEPT !["main"] = RRSetEntry]
              /\ UNCHANGED <<exc, result, s_fail>>
         ELSE /\ SyncRaise(IF o.kind = "ok" THEN ZoneNotFound ELSE Translate(o))
              /\ UNCHANGED zoneVars
    /\ s_api' = s_api \cup {"zone"}
    /\ UNCHANGED <<s_hostname, s_desired, s_dry, s_attempt, s_rrset, s_entry,
                   s_muts, s_invocations, s_took>>
    /\ UNCHANGED <<rlVars, retryVars, fnVars, provider, envVars, s_calls, cycleVars, healthVars>>
    /\ ProviderCalled
    /\ UNCHANGED loopVars

\* _get_a_rrset lines 111-117 and sync lines 157-176
RRSetLookup ==
    /\ pc["main"] = "rrset_call"
    /\ token' = TokensAfterCall("main")
    /\ \E o \in CallOutcomes :
         IF o.kind = "ok"
         THEN LET rr == provider[s_hostname]
                  d == SyncDecision(rr, s_desired, s_dry)
              IN /\ s_rrset' = rr
                 /\ pc' = [pc EXCEPT !["main"] =
                              IF d = "mutate" THEN "mut_wait" ELSE "sync_done"]
                 /\ result' = IF d = "mutate" THEN result ELSE Returned(d = "dry")
                 /\ UNCHANGED <<exc, s_fail>>
         ELSE /\ SyncRaise(Translate(o))
              /\ UNCHANGED s_rrset
    /\ s_api' = s_api \cup {"rrset"}
    /\ UNCHANGED <<s_hostname, s_desired, s_dry, s_attempt, s_entry, s_muts,
                   s_invocations, s_took>>
    /\ UNCHANGED <<rlVars, retryVars, fnVars, provider, envVars, zoneVars, s_calls, cycleVars,
                   healthVars>>
    /\ ProviderCalled
    /\ UNCHANGED loopVars

\* sync lines 180-206: delete_rrset, set_rrset_records or create_rrset.  A
\* call the client sees fail may or may not have taken effect.
Mutate ==
    /\ pc["main"] = "mut_call"
    /\ LET op == MutationOp(s_rrset, s_desired) IN
         IF op = "none"
         THEN /\ pc' = [pc EXCEPT !["main"] = "sync_done"]
              /\ result' = Returned(TRUE)
              /\ UNCHANGED <<provider, token, exc, s_fail, s_muts, histVars,
                             s_api, s_took>>
         ELSE /\ token' = TokensAfterCall("main")
              /\ ProviderCalled
              /\ s_muts' = Append(s_muts, [op |-> op, values |-> Sorted(s_desired)])
              /\ s_api' = s_api \cup {"mutate"}
              /\ \E o \in CallOutcomes, took \in BOOLEAN :
                   /\ s_took' = (s_took \/ o.kind = "ok" \/ took)
                   /\ IF o.kind = "ok"
                      THEN /\ provider' = Applied(op, s_hostname, s_desired)
                           /\ pc' = [pc EXCEPT !["main"] = "sync_done"]
                           /\ result' = Returned(TRUE)
                           /\ UNCHANGED <<exc, s_fail>>
                      ELSE /\ provider' = IF took
                                          THEN Applied(op, s_hostname, s_desired)
                                          ELSE provider
                           /\ SyncRaise(Translate(o))
    /\ UNCHANGED <<s_hostname, s_desired, s_dry, s_attempt, s_rrset, s_entry,
                   s_invocations>>
    /\ UNCHANGED <<rlVars, retryVars, fnVars, envVars, zoneVars, s_calls, cycleVars, healthVars>>
    /\ UNCHANGED loopVars

\* wrapper lines 52-62: time.sleep(delay), then the next attempt
Backoff ==
    /\ pc["main"] = "backoff"
    /\ s_attempt' = s_attempt + 1
    /\ exc' = NoExc
    /\ pc' = [pc EXCEPT !["main"] = "sync_call"]
    /\ UNCHANGED <<s_hostname, s_desired, s_dry, s_rrset, result, s_entry,
                   s_muts, s_fail, s_invocations, s_api, s_took>>
    /\ UNCHANGED <<rlVars, retryVars, fnVars, provider, envVars, zoneVars, token, s_calls,
                   cycleVars, healthVars>>
    /\ UNCHANGED <<histVars, loopVars>>

\* The hostname the direct calls are made for.  sync_a_records hands the
\* hostname to the provider as it is, and touches no other RRSet.
DirectHost == Records[1].hostname

\* The few lists the main thread syncs while the health probe runs
ProbeLists == {<<>>, <<1>>}

\* A direct call of sync_a_records, as the tests make it, with one of lists
CallSync(lists) ==
    /\ pc["main"] = "idle"
    /\ s_calls < MaxSyncCalls
    /\ s_calls' = s_calls + 1
    /\ \E d \in lists, dry \in BOOLEAN : StartSync(DirectHost, d, dry)
    /\ UNCHANGED <<rlVars, retryVars, fnVars, provider, envVars, zoneVars, token, cycleVars,
                   healthVars>>
    /\ UNCHANGED <<histVars, loopVars>>

\* The direct call has returned or raised
SyncReturn ==
    /\ pc["main"] = "sync_done"
    /\ pc' = [pc EXCEPT !["main"] = "idle"]
    /\ PopSync
    /\ UNCHANGED <<rlVars, retryVars, fnVars, provider, envVars, zoneVars, token,
                   s_calls, cycleVars, healthVars>>
    /\ UNCHANGED <<histVars, loopVars>>

\* ======================================================================
\* run_update and the main loop
\* ======================================================================

\* What get_interface_ips can return: each logical interface with its
\* address, or absent (0)
RouterAnswers == [Interfaces -> 0..NumIPs]

\* run_update lines 119-135: the addresses of the record's interfaces found
\* in the mapping, de-duplicated and sorted
DesiredIPsFirst(rec, ifs) ==
    SortedSeq({ifs[rec.interfaces[1]]} \ {0})
DesiredIPsAllPresent(rec, ifs) ==
    IF \E j \in DOMAIN rec.interfaces : ifs[rec.interfaces[j]] = 0 THEN <<>>
    ELSE SortedSeq({ifs[rec.interfaces[i]] : i \in DOMAIN rec.interfaces})
DesiredIPs(rec, ifs) ==
    SortedSeq({ifs[rec.interfaces[i]] :
                 i \in {j \in DOMAIN rec.interfaces : ifs[rec.interfaces[j]] # 0}})

\* run_update lines 137-142: a record with no address is skipped
SkipRecordNever(desired) == FALSE
SkipRecord(desired) == desired = <<>>

\* run_update lines 162-166: the annotation updater is to be called.  With
\* changed true and no kubernetes attribute, line 164 raises AttributeError,
\* caught at the record's boundary (lines 184-189): the updater is not called.
K8sDue(changed) ==
    changed /\ kubernetes = "enabled" /\ s_hostname = trigger_hostname

\* run_update lines 162-166, the three ways the condition can go
K8sCheck(changed) ==
    IF ~changed THEN "skip"
    ELSE IF kubernetes = "absent" THEN "attr"
    ELSE IF K8sDue(changed) THEN "call"
    ELSE "skip"

\* run_update lines 104-112: the mapping the cycle goes on with, and whether
\* it goes on: an exception of the fetch and an empty mapping both return.
FetchOutcomeIgnoreError(fetched, answer) ==
    [ips |-> answer, go |-> \E i \in Interfaces : answer[i] # 0]
FetchOutcome(fetched, answer) ==
    [ips |-> IF fetched THEN answer ELSE [i \in Interfaces |-> 0],
     go |-> fetched /\ \E i \in Interfaces : answer[i] # 0]

\* run_update line 152: verification is due
VerifyDueDryToo(changed, dry_run) == changed
VerifyDue(changed, dry_run) == changed /\ ~dry_run

\* run_update lines 155-166: what follows the answer of verify_a_records; the
\* value returned is dropped, an exception leaves the try block
VerifyNextRetry(answer) ==
    CASE answer = "raise" -> "caught"
      [] answer = "false" -> "resync"
      [] OTHER -> "annotate"
VerifyNext(answer) == IF answer = "raise" THEN "caught" ELSE "annotate"

\* Where run_update is after an exception raised while a record is processed
\* by sync_a_records ("sync"), by the sleep or verify_a_records ("verify"),
\* by config.kubernetes ("attr"), all caught at lines 184-189, or by the
\* annotation updater ("k8s"), caught at lines 178-183: at the next record.
CatchAbortsCycle(where) == IF where = "sync" THEN "cycle_end" ELSE "record"
CatchVerifyEscapes(where) == IF where = "verify" THEN "crashed" ELSE "record"
Catch(where) == "record"

\* The record is done, with the exception caught for it, "none" if none
FinishRecord(caught) ==
    /\ pc' = [pc EXCEPT !["main"] = IF caught = "none" THEN "record" ELSE Catch(caught)]
    /\ idx' = idx + 1
    /\ c_caught' = IF caught = "none" THEN c_caught
                   ELSE [c_caught EXCEPT ![CurrentRecord] = caught]
    /\ PopSync

\* run_update lines 161-166, reached with changed as sync returned it
AnnotationStage(changed) ==
    LET k == K8sCheck(changed) IN
      IF k = "call"
      THEN /\ pc' = [pc EXCEPT !["main"] = "k8s"]
           /\ UNCHANGED <<idx, syncVars, c_caught>>
      ELSE FinishRecord(IF k = "attr" THEN "attr" ELSE "none")

\* main line 236: while not shutdown.should_exit
LoopContinuesAlways(flag) == TRUE
LoopContinues(flag) == ~flag

\* main lines 236-238: the loop's test; the flag set ends the loop, the
\* health server is shut down and main returns
LoopTestUpTo(cycles) ==
    /\ pc["main"] = "while"
    /\ IF ~LoopContinues(should_exit)
       THEN /\ pc' = [pc EXCEPT !["main"] = "exited"]
            /\ exit_code' = 0
            /\ health_server' = FALSE
            /\ UNCHANGED iteration
       ELSE /\ iteration < cycles
            /\ iteration' = iteration + 1
            /\ pc' = [pc EXCEPT !["main"] = "loop"]
            /\ UNCHANGED <<exit_code, health_server>>
    /\ UNCHANGED <<cfg_dry_run, kubernetes, interface_ips, idx, c_start, c_fail>>
    /\ UNCHANGED <<should_exit, once, cfg_interval, sleep_left, sig_at, config_loaded>>
    /\ UNCHANGED <<rlVars, retryVars, fnVars, provider, envVars, zoneVars, token, syncVars,
                   s_calls, healthVars, histVars>>

LoopTest == LoopTestUpTo(MaxCycles)

\* main line 240 and run_update lines 104-114: run_update is called and
\* fetches the interface addresses; without any, it returns.
StartCycle ==
    /\ pc["main"] = "loop"
    /\ c_start' = provider
    /\ \E fetched \in BOOLEAN, answer \in RouterAnswers :
         LET f == FetchOutcome(fetched, answer) IN
           /\ c_fail' = ~fetched
           /\ c_fetch' = IF ~fetched THEN "failed"
                         ELSE IF \A i \in Interfaces : answer[i] = 0 THEN "empty"
                         ELSE "ok"
           /\ interface_ips' = f.ips
           /\ idx' = 1
           /\ pc' = [pc EXCEPT !["main"] = IF f.go THEN "record" ELSE "cycle_end"]
    /\ c_seen' = <<>>
    /\ c_last' = 0
    /\ c_touched' = {}
    /\ c_slept' = {}
    /\ c_changed' = {}
    /\ c_verify' = [i \in DOMAIN Records |-> <<>>]
    /\ c_k8s' = [i \in DOMAIN Records |-> <<>>]
    /\ c_caught' = [i \in DOMAIN Records |-> "none"]
    /\ UNCHANGED <<cfg_dry_run, kubernetes, iteration, c_done, c_prev>>
    /\ UNCHANGED <<rlVars, retryVars, fnVars, provider, envVars, zoneVars, token, syncVars,
                   s_calls, healthVars, loopVars>>

\* run_update lines 117-146: the next record; its desired addresses; skip
\* it or call sync_a_records
NextRecord ==
    /\ pc["main"] = "record"
    /\ IF idx > Len(Records)
       THEN /\ pc' = [pc EXCEPT !["main"] = "cycle_end"]
            /\ UNCHANGED <<syncVars, idx, c_seen>>
       ELSE LET rec == Records[RecordOrder(idx)]
                desired == DesiredIPs(rec, interface_ips)
            IN /\ c_seen' = Append(c_seen, RecordOrder(idx))
               /\ IF SkipRecord(desired)
                  THEN /\ idx' = idx + 1
                       /\ UNCHANGED <<syncVars, pc>>
                  ELSE /\ StartSync(rec.hostname, desired, cfg_dry_run)
                       /\ UNCHANGED idx
    /\ UNCHANGED <<cfg_dry_run, kubernetes, interface_ips, iteration, c_start,
                   c_fail>>
    /\ UNCHANGED <<c_changed, c_fetch, c_last, c_touched, c_slept, c_verify, c_k8s, c_caught,
                   c_done, c_prev>>
    /\ UNCHANGED <<rlVars, retryVars, fnVars, provider, envVars, zoneVars, token, s_calls,
                   healthVars, loopVars>>

\* run_update lines 146-166 and 184-189: sync has returned, or its
\* exception is caught at the record's boundary
AfterSync ==
    /\ pc["main"] = "sync_done"
    /\ IF result.kind = "raise"
       THEN /\ c_fail' = TRUE
            /\ FinishRecord("sync")
            /\ UNCHANGED c_changed
       ELSE /\ c_fail' = (c_fail \/ s_fail)
            /\ c_changed' = IF result.val THEN c_changed \cup {CurrentRecord}
                             ELSE c_changed
            /\ IF VerifyDue(result.val, cfg_dry_run)
               THEN /\ pc' = [pc EXCEPT !["main"] = "verify_sleep"]
                    /\ UNCHANGED <<idx, syncVars, c_caught>>
               ELSE AnnotationStage(result.val)
    /\ UNCHANGED <<cfg_dry_run, kubernetes, interface_ips, iteration, c_start>>
    /\ UNCHANGED <<c_fetch, c_seen, c_last, c_touched, c_slept, c_verify, c_k8s,
                   c_done, c_prev>>
    /\ UNCHANGED <<rlVars, retryVars, fnVars, provider, envVars, zoneVars, token,
                   s_calls, healthVars, loopVars>>

\* run_update line 154: time.sleep(config.settings.verify_delay)
VerifySleep ==
    /\ pc["main"] = "verify_sleep"
    /\ pc' = [pc EXCEPT !["main"] = "verify"]
    /\ c_slept' = c_slept \cup {CurrentRecord}
    /\ UNCHANGED <<c_changed, c_fetch, c_seen, c_last, c_touched, c_verify, c_k8s, c_caught,
                   c_done, c_prev>>
    /\ UNCHANGED <<rlVars, retryVars, fnVars, provider, envVars, zoneVars, token, syncVars,
                   s_calls, cycleVars, healthVars, loopVars>>

\* run_update lines 155-159: verify_a_records is called with the hostname
\* and set(desired_ips); its answer is dropped; an exception it lets out is
\* caught at the record's boundary
Verify ==
    /\ pc["main"] = "verify"
    /\ \E answer \in {"true", "false", "raise"} :
         /\ c_verify' = [c_verify EXCEPT ![CurrentRecord] =
                            Append(@, [hostname |-> s_hostname,
                                       ips |-> SetOf(s_desired),
                                       answer |-> answer])]
         /\ LET n == VerifyNext(answer) IN
              CASE n = "caught" -> FinishRecord("verify")
                [] n = "resync" ->
                      /\ pc' = [pc EXCEPT !["main"] = "sync_call"]
                      /\ UNCHANGED <<idx, syncVars, c_caught>>
                [] OTHER -> AnnotationStage(TRUE)
    /\ c_last' = CurrentRecord
    /\ UNCHANGED <<cfg_dry_run, kubernetes, interface_ips, iteration, c_start,
                   c_fail>>
    /\ UNCHANGED <<c_changed, c_fetch, c_seen, c_touched, c_slept, c_k8s, c_done, c_prev>>
    /\ UNCHANGED <<rlVars, retryVars, fnVars, provider, envVars, zoneVars, token,
                   s_calls, healthVars, loopVars>>

\* run_update lines 167-183: update_apex_dns_annotations is called with the
\* desired addresses and dry_run; its exception is caught on the spot
K8sUpdate ==
    /\ pc["main"] = "k8s"
    /\ \E outcome \in {"ok", "raise"} :
         /\ c_k8s' = [c_k8s EXCEPT ![CurrentRecord] =
                         Append(@, [ips |-> s_desired, dry_run |-> cfg_dry_run,
                                    outcome |-> outcome])]
         /\ FinishRecord(IF outcome = "raise" THEN "k8s" ELSE "none")
    /\ c_last' = CurrentRecord
    /\ UNCHANGED <<cfg_dry_run, kubernetes, interface_ips, iteration, c_start,
                   c_fail>>
    /\ UNCHANGED <<c_changed, c_fetch, c_seen, c_touched, c_slept, c_verify, c_done, c_prev>>
    /\ UNCHANGED <<rlVars, retryVars, fnVars, provider, envVars, zoneVars, token,
                   s_calls, healthVars, loopVars>>

\* history: the call of run_update that returns is noted for the next one
NoteCycle == c_prev' = [ran |-> TRUE, ok |-> ~c_fail, ips |-> interface_ips]

\* main lines 242-244: if args.once: break
OnceBreakNever(flag) == FALSE
OnceBreak(flag) == flag

\* main lines 240-250: run_update has returned; with --once the loop is
\* left, the health server is shut down and main returns; otherwise the
\* inter-cycle sleep begins
EndCycle ==
    /\ pc["main"] = "cycle_end"
    /\ c_done' = c_done + 1
    /\ IF OnceBreak(once)
       THEN /\ pc' = [pc EXCEPT !["main"] = "exited"]
            /\ exit_code' = 0
            /\ health_server' = FALSE
            /\ UNCHANGED sleep_left
       ELSE /\ pc' = [pc EXCEPT !["main"] = "sleep"]
            /\ sleep_left' = cfg_interval
            /\ UNCHANGED <<exit_code, health_server>>
    /\ UNCHANGED <<should_exit, once, cfg_interval, sig_at, config_loaded>>
    /\ UNCHANGED <<c_changed, c_fetch, c_seen, c_last, c_touched, c_slept, c_verify, c_k8s,
                   c_caught>>
    /\ UNCHANGED <<rlVars, retryVars, fnVars, provider, envVars, zoneVars, token, syncVars,
                   s_calls, cycleVars, healthVars>>

\* main lines 254-255: if shutdown.should_exit: break
SleepBreakNever(flag) == FALSE
SleepBreak(flag) == flag

\* main lines 253-256: one pass of the sleep loop begins: the loop is left
\* when the passes are used up or the flag is set, else time.sleep(1) is
\* entered
SleepStep ==
    /\ pc["main"] = "sleep"
    /\ IF sleep_left = 0 \/ SleepBreak(should_exit)
       THEN /\ pc' = [pc EXCEPT !["main"] = "while"]
            /\ UNCHANGED sleep_left
       ELSE /\ sleep_left' = sleep_left - 1
            /\ pc' = [pc EXCEPT !["main"] = "sleeping"]
    /\ UNCHANGED <<should_exit, once, cfg_interval, exit_code, health_server, sig_at,
                   config_loaded>>
    /\ UNCHANGED <<rlVars, retryVars, fnVars, provider, envVars, zoneVars, token, syncVars,
                   s_calls, cycleVars, healthVars, histVars>>

\* main line 256: time.sleep(1) returns after its second, a signal handled
\* in between or not
SleepOne ==
    /\ pc["main"] = "sleeping"
    /\ pc' = [pc EXCEPT !["main"] = "sleep"]
    /\ sig_at' = IF should_exit THEN [sig_at EXCEPT !.sleeps = @ + 1] ELSE sig_at
    /\ UNCHANGED <<should_exit, once, cfg_interval, sleep_left, exit_code,
                   health_server, config_loaded>>
    /\ UNCHANGED <<rlVars, retryVars, fnVars, provider, envVars, zoneVars, token, syncVars,
                   s_calls, cycleVars, healthVars, histVars>>

\* main lines 197-233: the configuration is loaded; a failure exits with
\* code 1; otherwise the signal handlers are installed, the clients are
\* built and, with a health port configured, the health server is started.
\* An exception of the server's start (the port is taken) leaves main.
StartupContinues(loaded) == "while"
Startup(loaded) == IF loaded THEN "while" ELSE "exited"

Start ==
    /\ pc["main"] = "start"
    /\ \E loaded \in BOOLEAN, health_port \in BOOLEAN, bound \in BOOLEAN :
         LET to == Startup(loaded) IN
           /\ config_loaded' = IF loaded THEN "yes" ELSE "no"
           /\ IF to = "exited"
              THEN /\ pc' = [pc EXCEPT !["main"] = "exited"]
                   /\ exit_code' = 1
                   /\ UNCHANGED health_server
              ELSE IF health_port /\ ~bound
              THEN /\ pc' = [pc EXCEPT !["main"] = "crashed"]
                   /\ exit_code' = 1
                   /\ UNCHANGED health_server
              ELSE /\ pc' = [pc EXCEPT !["main"] = to]
                   /\ health_server' = health_port
                   /\ UNCHANGED exit_code
    /\ UNCHANGED <<should_exit, once, cfg_interval, sleep_left, sig_at>>
    /\ UNCHANGED <<rlVars, retryVars, fnVars, provider, envVars, zoneVars, token, syncVars,
                   s_calls, cycleVars, healthVars, histVars>>

\* Where main stands: at the loop's test, in the inter-cycle sleep (between
\* two seconds, or inside time.sleep(1)), or in a cycle (the test passed,
\* run_update not yet returned to the loop)
Phase(p) ==
    CASE p = "while" -> "test"
      [] p = "sleep" -> "sleep"
      [] p = "sleeping" -> "sleeping"
      [] p \in {"start", "exited", "crashed", "idle"} -> "none"
      [] OTHER -> "cycle"

\* GracefulShutdown._handler: SIGTERM or SIGINT arrives once the handlers
\* are installed
Signal ==
    /\ pc["main"] \notin {"start", "exited", "crashed"}
    /\ should_exit' = TRUE
    /\ sig_at' = IF should_exit THEN sig_at
                 ELSE [pc |-> Phase(pc["main"]), iteration |-> iteration,
                       done |-> c_done, left |-> sleep_left, sleeps |-> 0]
    /\ UNCHANGED <<once, cfg_interval, sleep_left, exit_code, health_server,
                   config_loaded>>
    /\ UNCHANGED <<rlVars, retryVars, fnVars, provider, envVars, zoneVars, pc, token,
                   syncVars, s_calls, cycleVars, healthVars, histVars>>

\* ======================================================================
\* Health probe thread
\* ======================================================================

\* No request in hand
NoCall == [route |-> "none", router |-> FALSE, answer |-> "none",
           zone |-> FALSE, lookups |-> 0, failed |-> "none"]

\* main line 231: opnsense.health_check(timeout=2.0) and hetzner.health_check()
ReadyCheck(router, hetzner) == router /\ hetzner

\* do_GET lines 35-38: the status of the readiness route
ReadyStatus(ready) == IF ready THEN 200 ELSE 503

\* health_check lines 214-219: an exception of _get_zone gives False
HealthCatchRetry(e) == IF IsRetryable(e) THEN "retry" ELSE "false"
HealthCatch(e) == "false"

\* do_GET: /healthz answers 200; /readyz runs ready_check, which asks the
\* router and then, the router answering, hetzner.health_check(), that is
\* _get_zone(): with the zone cached it returns True at once
HealthRequest ==
    /\ pc["health"] = "idle"
    /\ probes < MaxProbes
    /\ probes' = probes + 1
    /\ \E route \in {"healthz", "readyz"}, routerOK \in BOOLEAN :
         IF route = "healthz"
         THEN /\ h_response' = 200
              /\ h_call' = [NoCall EXCEPT !.route = route]
              /\ UNCHANGED pc
         ELSE IF ~routerOK
         THEN /\ h_response' = ReadyStatus(ReadyCheck(FALSE, FALSE))
              /\ h_call' = [NoCall EXCEPT !.route = route]
              /\ UNCHANGED pc
         ELSE /\ pc' = [pc EXCEPT !["health"] = ZoneEntry("idle", "zone_wait")]
              /\ h_response' = IF zone_cache
                                THEN ReadyStatus(ReadyCheck(TRUE, TRUE))
                                ELSE h_response
              /\ h_call' = [NoCall EXCEPT !.route = route, !.router = TRUE,
                                !.answer = IF zone_cache THEN "true" ELSE "none",
                                !.zone = zoneExists]
    /\ UNCHANGED <<rlVars, retryVars, fnVars, provider, envVars, zoneVars, token, syncVars,
                   s_calls, cycleVars>>
    /\ UNCHANGED <<histVars, loopVars>>

\* _get_zone lines 87-95 in health_check: the zone is looked up and cached;
\* any exception gives False
ZoneLookupHealth ==
    /\ pc["health"] = "zone_call"
    /\ token' = TokensAfterCall("health")
    /\ \E o \in CallOutcomes :
         IF ZoneFound(o.kind = "ok", zoneExists)
         THEN /\ zone_cache' = TRUE
              /\ zone_lookups' = zone_lookups + 1
              /\ pc' = [pc EXCEPT !["health"] = "idle"]
              /\ h_response' = ReadyStatus(ReadyCheck(h_call.router, TRUE))
              /\ h_call' = [h_call EXCEPT !.answer = "true", !.zone = zoneExists,
                                !.lookups = @ + 1]
         ELSE LET e == IF o.kind = "ok" THEN ZoneNotFound ELSE Translate(o)
                  failed == IF o.kind = "ok" THEN "nozone" ELSE o.kind
              IN IF HealthCatch(e) = "retry"
                 THEN /\ pc' = [pc EXCEPT !["health"] = "zone_wait"]
                      /\ h_call' = [h_call EXCEPT !.lookups = @ + 1, !.failed = failed]
                      /\ UNCHANGED <<h_response, zoneVars>>
                 ELSE /\ pc' = [pc EXCEPT !["health"] = "idle"]
                      /\ h_response' = ReadyStatus(ReadyCheck(h_call.router, FALSE))
                      /\ h_call' = [h_call EXCEPT !.answer = "false",
                                        !.zone = zoneExists, !.lookups = @ + 1,
                                        !.failed = failed]
                      /\ UNCHANGED zoneVars
    /\ UNCHANGED probes
    /\ UNCHANGED <<rlVars, retryVars, fnVars, provider, envVars, syncVars, s_calls, cycleVars>>
    /\ UNCHANGED <<histVars, loopVars>>

\* The zone is removed at the provider while the process runs: from now on
\* zones.get_all(name=...) finds no zone
ZoneDeleted ==
    /\ zoneExists
    /\ zoneExists' = FALSE
    /\ UNCHANGED p_codes
    /\ UNCHANGED <<rlVars, retryVars, fnVars, provider, zoneVars, pc, token, syncVars,
                   s_calls, cycleVars, healthVars, histVars, loopVars>>

\* ======================================================================
\* OPNsenseClient.get_interface_ips
\* ======================================================================

\* config.opnsense.interfaces: logical name -> provider-side name, in the
\* order of the mapping
opn_interfaces == << [logical_name |-> "wan", opnsense_name |-> "igb0"],
                     [logical_name |-> "wan2", opnsense_name |-> "igb1"] >>
OpnNames == {opn_interfaces[i].opnsense_name : i \in DOMAIN opn_interfaces}
LogicalNames == {opn_interfaces[i].logical_name : i \in DOMAIN opn_interfaces}

\* An "ipaddr" field, a string when present: None for an absent key, 0 for
\* the empty string, else an address
AddrValues == {None, 0} \cup IPs

\* The entry of an interface in the router's answer: its "ipv4" field is
\* absent, something that is no list, or a list of entries each with or
\* without an "ipaddr"; its direct "ipaddr" field
IfaceInfo(kind, list, direct) ==
    [present |-> TRUE, ipv4_kind |-> kind, ipv4 |-> list, ipaddr |-> direct]
\* The interface is not in the answer
Missing == [present |-> FALSE, ipv4_kind |-> "absent", ipv4 |-> <<>>, ipaddr |-> None]

IfaceInfos ==
    {IfaceInfo("list", l, d) :
        l \in UNION {[1..n -> AddrValues] : n \in 0..MaxLen}, d \in AddrValues}
      \cup {IfaceInfo(k, <<>>, d) : k \in {"absent", "other"}, d \in AddrValues}

\* The few entries the second interface is given
SimpleInfos ==
    {Missing, IfaceInfo("list", <<1>>, None), IfaceInfo("list", <<>>, None),
     IfaceInfo("absent", <<>>, NumIPs)}

EmptyBody == [n \in OpnNames |-> Missing]
RouterBodies ==
    {[n \in OpnNames |-> IF n = opn_interfaces[1].opnsense_name THEN a ELSE b] :
        a \in IfaceInfos \cup {Missing}, b \in SimpleInfos}

\* What the GET can give: no response (transport failure), a status that
\* is not 2xx, a 2xx whose body response.json() cannot decode, or a 2xx
\* with a JSON object of interface entries
GetStatuses == {"transport", "non2xx", "undecodable", "ok"}

\* lines 48-51: self._client.get, raise_for_status, response.json()
GetOutcomeLenient(status) ==
    IF status \in {"transport", "undecodable"} THEN "raise" ELSE "parse"
GetOutcome(status) == IF status = "ok" THEN "parse" ELSE "raise"

FirstIpaddrHeadOnly(list) == IF list = <<>> THEN None ELSE Head(list)
RECURSIVE FirstIpaddr(_)
\* lines 72-75: the "ipaddr" of the first entry that has one
FirstIpaddr(list) ==
    IF list = <<>> THEN None
    ELSE IF Head(list) # None THEN Head(list)
    ELSE FirstIpaddr(Tail(list))

\* lines 68-79: the ipv4 list first, the direct field when that gave None
ExtractIPv4(iface_info) ==
    LET ipv4_addr == IF iface_info.ipv4_kind = "list"
                     THEN FirstIpaddr(iface_info.ipv4) ELSE None
    IN IF ipv4_addr = None /\ iface_info.ipaddr # None
       THEN iface_info.ipaddr
       ELSE ipv4_addr

\* line 81: if ipv4_addr
TruthyAlways(ipv4_addr) == TRUE
Truthy(ipv4_addr) == ipv4_addr # None /\ ipv4_addr # 0

\* result[k] = v
Put(r, k, v) == [x \in DOMAIN r \cup {k} |-> IF x = k THEN v ELSE r[x]]

IdleRouter ==
    /\ g_pc = "idle"
    /\ g_status = "none"
    /\ interface_data = EmptyBody
    /\ g_i = 1
    /\ g_result = <<>>
    /\ g_gets = 0
    /\ g_calls = 0

\* lines 45-54: one GET; a failure raises, otherwise the body is decoded
\* and the result starts empty
RouterGet ==
    /\ g_pc = "idle"
    /\ g_calls < MaxRouterCalls
    /\ g_calls' = g_calls + 1
    /\ g_gets' = g_gets + 1
    /\ \E status \in GetStatuses, body \in RouterBodies :
         /\ status # "ok" => body = EmptyBody
         /\ g_status' = status
         /\ interface_data' = body
         /\ g_pc' = IF GetOutcome(status) = "raise" THEN "raised" ELSE "loop"
    /\ g_i' = 1
    /\ g_result' = <<>>
    /\ UNCHANGED <<rlVars, retryVars, progVars, verifyVars>>

\* lines 55-96: one pass of the loop over the configured interfaces, and
\* the return after the last
RouterLoop ==
    /\ g_pc = "loop"
    /\ IF g_i > Len(opn_interfaces)
       THEN /\ g_pc' = "returned"
            /\ UNCHANGED <<g_i, g_result>>
       ELSE LET item == opn_interfaces[g_i]
                iface_info == interface_data[item.opnsense_name]
            IN /\ g_i' = g_i + 1
               /\ g_result' =
                     IF iface_info.present /\ Truthy(ExtractIPv4(iface_info))
                     THEN Put(g_result, item.logical_name, ExtractIPv4(iface_info))
                     ELSE g_result
               /\ UNCHANGED g_pc
    /\ UNCHANGED <<g_status, interface_data, g_gets, g_calls>>
    /\ UNCHANGED <<rlVars, retryVars, progVars, verifyVars>>

\* The caller has the mapping or the exception; it may call again
RouterDone ==
    /\ g_pc \in {"returned", "raised"}
    /\ g_pc' = "idle"
    /\ UNCHANGED <<g_status, interface_data, g_i, g_result, g_gets, g_calls>>
    /\ UNCHANGED <<rlVars, retryVars, progVars, verifyVars>>

\* ======================================================================
\* verify_a_records
\* ======================================================================

\* HETZNER_NAMESERVERS
HETZNER_NAMESERVERS == <<"helium.ns.hetzner.de", "hydrogen.ns.hetzner.com",
                         "oxygen.ns.hetzner.com">>

\* What resolver.resolve(fqdn, "A") can give: an answer with at least one
\* address, NXDOMAIN, NoAnswer, or another exception (a timeout, no
\* nameserver answering)
NoQuery == [kind |-> "none", ips |-> {}]
QueryOutcomes ==
    {[kind |-> "answer", ips |-> S] : S \in (SUBSET IPs) \ {{}}}
        \cup {[kind |-> k, ips |-> {}] : k \in {"NXDOMAIN", "NoAnswer", "other"}}

\* lines 72-135: what verify_a_records returns after the query
VerifyResultSubset(q, expected) ==
    CASE q.kind = "answer" -> expected \subseteq q.ips
      [] q.kind = "NXDOMAIN" -> expected = {}
      [] q.kind = "NoAnswer" -> expected = {}
      [] OTHER -> FALSE
VerifyResult(q, expected) ==
    CASE q.kind = "answer" -> q.ips = expected
      [] q.kind = "NXDOMAIN" -> expected = {}
      [] q.kind = "NoAnswer" -> expected = {}
      [] OTHER -> FALSE

\* return True / return False
Bool(b) == IF b THEN "true" ELSE "false"

IdleVerify ==
    /\ v_pc = "idle"
    /\ expected_ips = {}
    /\ v_conf = TRUE
    /\ v_ns = [i \in DOMAIN HETZNER_NAMESERVERS |-> TRUE]
    /\ v_i = 1
    /\ ns_ips = {}
    /\ v_query = NoQuery
    /\ v_ret = "none"

\* lines 61-63 and 27: resolve_nameserver_ips builds its resolver;
\* dns.resolver.Resolver() raises when it cannot read the configuration
VerifyStart ==
    /\ v_pc = "idle"
    /\ v_ret = "none"
    /\ v_pc' = IF v_conf THEN "ns" ELSE "raised"
    /\ UNCHANGED <<expected_ips, v_conf, v_ns, v_i, ns_ips, v_query, v_ret>>
    /\ UNCHANGED <<rlVars, retryVars, progVars, routerVars>>

\* lines 31-38 and 64-70: one pass of the loop over the nameservers, a
\* failure skipped; after the last, False without any nameserver
VerifyResolveNS ==
    /\ v_pc = "ns"
    /\ IF v_i > Len(HETZNER_NAMESERVERS)
       THEN /\ v_pc' = IF ns_ips = {} THEN "returned" ELSE "query"
            /\ v_ret' = IF ns_ips = {} THEN Bool(FALSE) ELSE v_ret
            /\ UNCHANGED <<v_i, ns_ips>>
       ELSE /\ ns_ips' = IF v_ns[v_i] THEN ns_ips \cup {v_i} ELSE ns_ips
            /\ v_i' = v_i + 1
            /\ UNCHANGED <<v_pc, v_ret>>
    /\ UNCHANGED <<expected_ips, v_conf, v_ns, v_query>>
    /\ UNCHANGED <<rlVars, retryVars, progVars, routerVars>>

\* lines 72-135: the A query at the nameservers found, and the answer
VerifyQuery ==
    /\ v_pc = "query"
    /\ \E q \in QueryOutcomes :
         /\ v_query' = q
         /\ v_ret' = Bool(VerifyResult(q, expected_ips))
    /\ v_pc' = "returned"
    /\ UNCHANGED <<expected_ips, v_conf, v_ns, v_i, ns_ips>>
    /\ UNCHANGED <<rlVars, retryVars, progVars, routerVars>>

\* ======================================================================
\* Specifications
\* ======================================================================

IdleSync ==
    /\ s_hostname = "home"
    /\ s_desired = <<>>
    /\ s_dry = FALSE
    /\ s_attempt = 0
    /\ s_rrset = NoRRSet
    /\ exc = NoExc
    /\ result = NoResult
    /\ s_entry = NoRRSet
    /\ s_muts = <<>>
    /\ s_fail = FALSE
    /\ s_invocations = 0
    /\ s_api = {}
    /\ s_took = FALSE
    /\ s_calls = 0

\* No call of run_update has returned
NoCycle == [ran |-> FALSE, ok |-> FALSE, ips |-> [i \in Interfaces |-> 0]]

IdleCycle ==
    /\ interface_ips = [i \in Interfaces |-> 0]
    /\ idx = 1
    /\ iteration = 0
    /\ c_start = provider
    /\ c_fail = FALSE
    /\ c_fetch = "none"
    /\ c_seen = <<>>
    /\ c_last = 0
    /\ c_touched = {}
    /\ c_slept = {}
    /\ c_changed = {}
    /\ c_verify = [i \in DOMAIN Records |-> <<>>]
    /\ c_k8s = [i \in DOMAIN Records |-> <<>>]
    /\ c_caught = [i \in DOMAIN Records |-> "none"]
    /\ c_done = 0
    /\ c_prev = NoCycle
    /\ probes = 0
    /\ h_response = 0
    /\ h_call = NoCall

\* No signal has come
NoSignal == [pc |-> "none", iteration |-> 0, done |-> 0, left |-> 0, sleeps |-> 0]

\* main is not running: the client is used on its own
IdleLoop ==
    /\ should_exit = FALSE
    /\ once = FALSE
    /\ cfg_interval = 0
    /\ sleep_left = 0
    /\ exit_code = -1
    /\ health_server = FALSE
    /\ sig_at = NoSignal
    /\ config_loaded = "none"

IdleCore ==
    /\ provider = [h \in Hostnames |-> NoRRSet]
    /\ zoneExists = TRUE
    /\ p_codes = {}
    /\ zone_cache = FALSE
    /\ zone_lookups = 0
    /\ pc = [t \in Threads |-> "idle"]
    /\ token = [t \in Threads |-> "none"]
    /\ cfg_dry_run = FALSE
    /\ kubernetes = "disabled"
    /\ IdleSync
    /\ IdleCycle
    /\ IdleLoop
    /\ IdleRouter
    /\ IdleVerify

\* The client just constructed
InitClient ==
    /\ zoneExists \in BOOLEAN
    /\ zone_cache = FALSE
    /\ zone_lookups = 0
    /\ token = [t \in Threads |-> "none"]
    /\ IdleSync
    /\ IdleCycle
    /\ IdleLimiter
    /\ IdleRetry
    /\ IdleRouter
    /\ IdleVerify

\* sync_a_records called directly, in front of any RRSet for the hostname
InitSync ==
    /\ provider \in {[h \in Hostnames |-> IF h = DirectHost THEN rr ELSE NoRRSet] :
                        rr \in RRStates}
    /\ InitClient
    /\ p_codes = AllCodes
    /\ pc = [t \in Threads |-> "idle"]
    /\ cfg_dry_run = FALSE
    /\ kubernetes = "disabled"
    /\ IdleLoop

NextSync ==
    \/ CallSync(DesiredLists)
    \/ SyncAttempt
    \/ LimiterAcquire("main")
    \/ LimiterRelease("main")
    \/ ZoneLookupSync
    \/ RRSetLookup
    \/ Mutate
    \/ Backoff
    \/ SyncReturn

SpecSync == InitSync /\ [][NextSync]_vars

\* What a hostname's RRSet is when the process starts: none, one address,
\* or every address
StartRRStates == {NoRRSet, RRSet({1}), RRSet(IPs)}

\* The process after start-up, in front of these provider states: the loop
\* is about to run its first cycle, and no signal comes.
Init ==
    /\ provider \in [Hostnames -> StartRRStates]
    /\ InitClient
    /\ p_codes = FewCodes
    /\ pc = [t \in Threads |-> IF t = "main" THEN "while" ELSE "idle"]
    /\ cfg_dry_run \in BOOLEAN
    /\ kubernetes \in {"absent", "disabled", "enabled"}
    /\ should_exit = FALSE
    /\ once = FALSE
    /\ cfg_interval = 1
    /\ sleep_left = 0
    /\ exit_code = -1
    /\ health_server = FALSE
    /\ sig_at = NoSignal
    /\ config_loaded = "yes"

Next ==
    \/ LoopTest
    \/ StartCycle
    \/ NextRecord
    \/ SyncAttempt
    \/ LimiterAcquire("main")
    \/ LimiterRelease("main")
    \/ ZoneLookupSync
    \/ RRSetLookup
    \/ Mutate
    \/ Backoff
    \/ AfterSync
    \/ VerifySleep
    \/ Verify
    \/ K8sUpdate
    \/ EndCycle /\ UNCHANGED c_prev
    \/ SleepStep
    \/ SleepOne

Spec == Init /\ [][Next]_vars

\* main from its first line, with signals: the provider holds a stale
\* address for the first record, and its calls answer, fail with status
\* 429 or fail with an exception that is no APIException
InitLoop ==
    /\ provider = [h \in Hostnames |-> IF h = DirectHost THEN RRSet({1}) ELSE NoRRSet]
    /\ InitClient
    /\ zoneExists
    /\ p_codes = {IntCode(429)}
    /\ pc = [t \in Threads |-> IF t = "main" THEN "start" ELSE "idle"]
    /\ cfg_dry_run = FALSE
    /\ kubernetes = "enabled"
    /\ should_exit = FALSE
    /\ once \in BOOLEAN
    /\ cfg_interval \in {0, MaxInterval}
    /\ sleep_left = 0
    /\ exit_code = -1
    /\ health_server = FALSE
    /\ sig_at = NoSignal
    /\ config_loaded = "none"

NextLoop ==
    \/ Start
    \/ Signal
    \/ Next

SpecLoop == InitLoop /\ [][NextLoop]_vars

\* The loop after start-up, without --once and with the longest interval,
\* signals coming or not
InitFair ==
    /\ provider = [h \in Hostnames |-> IF h = DirectHost THEN RRSet({1}) ELSE NoRRSet]
    /\ InitClient
    /\ zoneExists
    /\ p_codes = {IntCode(429)}
    /\ pc = [t \in Threads |-> IF t = "main" THEN "while" ELSE "idle"]
    /\ cfg_dry_run = FALSE
    /\ kubernetes = "enabled"
    /\ should_exit = FALSE
    /\ once = FALSE
    /\ cfg_interval = MaxInterval
    /\ sleep_left = 0
    /\ exit_code = -1
    /\ health_server = FALSE
    /\ sig_at = NoSignal
    /\ config_loaded = "yes"

NextFair ==
    \/ Signal
    \/ Next

\* The main thread is never starved: each call it makes returns and it
\* takes its next step.  No signal has to come.
SpecLoopFair == InitFair /\ [][NextFair]_vars /\ WF_vars(Next)

\* The loop after start-up running one cycle more, without signals and
\* without a sleep between the cycles: a stale RRSet for the first record,
\* none for the second; the provider's calls answer, fail with status 429
\* or fail with an exception that is no APIException
InitTwice ==
    /\ provider = [h \in Hostnames |-> IF h = DirectHost THEN RRSet({1}) ELSE NoRRSet]
    /\ InitClient
    /\ zoneExists
    /\ p_codes = {IntCode(429)}
    /\ pc = [t \in Threads |-> IF t = "main" THEN "while" ELSE "idle"]
    /\ cfg_dry_run = FALSE
    /\ kubernetes = "enabled"
    /\ should_exit = FALSE
    /\ once = FALSE
    /\ cfg_interval = 0
    /\ sleep_left = 0
    /\ exit_code = -1
    /\ health_server = FALSE
    /\ sig_at = NoSignal
    /\ config_loaded = "yes"

LoopTestAgain == LoopTestUpTo(MaxCycles + 1)

NextTwice ==
    \/ LoopTestAgain
    \/ StartCycle
    \/ NextRecord
    \/ SyncAttempt
    \/ LimiterAcquire("main")
    \/ LimiterRelease("main")
    \/ ZoneLookupSync
    \/ RRSetLookup
    \/ Mutate
    \/ Backoff
    \/ AfterSync
    \/ VerifySleep
    \/ Verify
    \/ K8sUpdate
    \/ EndCycle /\ NoteCycle
    \/ SleepStep

SpecTwice == InitTwice /\ [][NextTwice]_vars

\* The health probe thread beside the main thread, both using the client
InitProbe ==
    /\ provider \in {[h \in Hostnames |-> IF h = DirectHost THEN rr ELSE NoRRSet] :
                        rr \in {NoRRSet, RRSet({1})}}
    /\ InitClient
    /\ p_codes = FewCodes
    /\ pc = [t \in Threads |-> "idle"]
    /\ cfg_dry_run = FALSE
    /\ kubernetes = "disabled"
    /\ IdleLoop

NextProbe ==
    \/ CallSync(ProbeLists)
    \/ SyncAttempt
    \/ \E t \in Threads : LimiterAcquire(t)
    \/ \E t \in Threads : LimiterRelease(t)
    \/ ZoneLookupSync
    \/ RRSetLookup
    \/ Mutate
    \/ Backoff
    \/ SyncReturn
    \/ HealthRequest
    \/ ZoneLookupHealth
    \/ ZoneDeleted

SpecProbe == InitProbe /\ [][NextProbe]_vars

\* One thread of control using the client: sync_a_records and health_check
\* are called one after the other, never at the same time
SeqCallSync ==
    /\ pc["health"] = "idle"
    /\ CallSync(ProbeLists)

SeqHealthRequest ==
    /\ pc["main"] = "idle"
    /\ HealthRequest

NextSeq ==
    \/ SeqCallSync
    \/ SyncAttempt
    \/ \E t \in Threads : LimiterAcquire(t)
    \/ \E t \in Threads : LimiterRelease(t)
    \/ ZoneLookupSync
    \/ RRSetLookup
    \/ Mutate
    \/ Backoff
    \/ SyncReturn
    \/ SeqHealthRequest
    \/ ZoneLookupHealth
    \/ ZoneDeleted

SpecSeq == InitProbe /\ [][NextSeq]_vars

\* get_interface_ips called on its own, as the unit tests do, in front of
\* every answer of the router
InitRouter == IdleLimiter /\ IdleRetry /\ IdleCore

NextRouter ==
    \/ RouterGet
    \/ RouterLoop
    \/ RouterDone

SpecRouter == InitRouter /\ [][NextRouter]_vars

\* verify_a_records called on its own, for every expected set and every
\* state of the resolution
InitVerify ==
    /\ IdleLimiter
    /\ IdleRetry
    /\ provider = [h \in Hostnames |-> NoRRSet]
    /\ zoneExists = TRUE
    /\ p_codes = {}
    /\ zone_cache = FALSE
    /\ zone_lookups = 0
    /\ pc = [t \in Threads |-> "idle"]
    /\ token = [t \in Threads |-> "none"]
    /\ cfg_dry_run = FALSE
    /\ kubernetes = "disabled"
    /\ IdleSync
    /\ IdleCycle
    /\ IdleLoop
    /\ IdleRouter
    /\ v_pc = "idle"
    /\ expected_ips \in SUBSET IPs
    /\ v_conf \in BOOLEAN
    /\ v_ns \in [DOMAIN HETZNER_NAMESERVERS -> BOOLEAN]
    /\ v_i = 1
    /\ ns_ips = {}
    /\ v_query = NoQuery
    /\ v_ret = "none"

NextVerify ==
    \/ VerifyStart
    \/ VerifyResolveNS
    \/ VerifyQuery

SpecVerify == InitVerify /\ [][NextVerify]_vars

InitRL == InitLimiter /\ IdleRetry /\ IdleCore

NextRL ==
    \/ \E t \in Threads : WaitEnter(t) /\ UNCHANGED <<retryVars, coreVars>>
    \/ \E t \in Threads : WaitExit(t) /\ UNCHANGED <<retryVars, coreVars>>
    \/ Tick /\ UNCHANGED <<retryVars, coreVars>>

SpecRL == InitRL /\ [][NextRL]_vars

InitRetryOnly == InitRetry /\ IdleLimiter /\ IdleCore

NextRetry ==
    \/ RetryCall /\ UNCHANGED <<rlVars, coreVars>>
    \/ RetrySleep /\ UNCHANGED <<rlVars, coreVars>>

SpecRetry == InitRetryOnly /\ [][NextRetry]_vars

\* ======================================================================
\* Claims
\* ======================================================================

AllRetryable == \A i \in 1..Len(r_hist) : r_hist[i] = "retryable"

\* C6: an operation that fails with a retryable exception on every attempt
\* is invoked exactly max_retries + 1 times and the wrapper then raises the
\* last failure; when should_retry answers false for the first failure the
\* operation is invoked exactly once and the failure is raised with no sleep.
C6_RetryCount ==
    /\ (Len(r_hist) > 0 /\ AllRetryable) =>
          /\ Len(r_hist) <= r_max + 1
          /\ r_sleeps = Len(r_hist) - (IF r_pc = "call" THEN 0 ELSE 1)
          /\ r_pc # "returned"
          /\ r_pc = "raised" <=> (Len(r_hist) = r_max + 1)
          /\ r_pc = "raised" => r_raised = r_max + 1
    /\ (r_has_pred /\ Len(r_hist) > 0 /\ r_hist[1] = "nonretryable") =>
          /\ r_pc = "raised"
          /\ Len(r_hist) = 1
          /\ r_sleeps = 0
          /\ r_raised = 1

C6_Witness ==
    /\ r_max = 3
    /\ AllRetryable
    /\ Len(r_hist) = 4
    /\ r_pc = "raised"

\* C8: the first wait() never sleeps; a wait() entered elapsed seconds after
\* the previous one was let through sleeps min_interval - elapsed when
\* elapsed < min_interval and not at all otherwise; when no time passes
\* between the calls, every wait() after the first sleeps min_interval.
C8_SleepDurations ==
    /\ \A i \in 1..Len(waits) :
         /\ i = 1 => waits[i].slept = 0
         /\ (i > 1 /\ i - 1 <= Len(releases)) =>
               LET elapsed == waits[i].at - releases[i - 1].at IN
                 waits[i].slept =
                    IF elapsed < min_interval THEN min_interval - elapsed ELSE 0
    /\ extraTime = 0 => \A i \in 2..Len(waits) : waits[i].slept = min_interval

C8_Witness ==
    /\ Len(releases) = 3
    /\ extraTime = 0
    /\ min_interval = 2

\* C9: whatever the interleaving of the callers sharing the limiter, two
\* consecutive callers are let through at least min_interval apart.
C9_MinimumSpacing ==
    \A i \in 2..Len(releases) :
        releases[i].at - releases[i - 1].at >= min_interval

C9_Witness ==
    /\ Len(releases) >= 2
    /\ releases[1].by # releases[2].by
    /\ waits[2].slept > 0

\* ---------------------------------------------------------------------
\* sync_a_records (SpecSync)
\* ---------------------------------------------------------------------

SyncDone == pc["main"] = "sync_done"

\* The main thread is inside a call of sync_a_records, its end included
InSync ==
    pc["main"] \in {"sync_call", "backoff", "sync_done"}
                      \cup WaitPcs \cup HoldPcs \cup CallPcs

\* C1: when the set of the desired addresses equals the set held by the
\* provider's RRSet for the hostname as the call starts (both may be empty),
\* sync_a_records issues no create, replace or delete, leaves the RRSet as
\* it is and returns False; it ends otherwise only by raising the failure
\* of a lookup.
C1_NoChange ==
    (InSync /\ SetOf(s_desired) = CurrentIPs(s_entry)) =>
        /\ s_muts = <<>>
        /\ provider[s_hostname] = s_entry
        /\ SyncDone =>
              \/ result = Returned(FALSE)
              \/ result.kind = "raise" /\ s_fail

C1_Witness ==
    /\ SyncDone
    /\ result = Returned(FALSE)
    /\ s_entry.exists
    /\ s_entry.records # {}
    /\ Len(s_desired) > Cardinality(s_entry.records)

\* The one mutating call C2 names for an RRSet and a list of desired addresses
ExpectedOp(rrset, desired) ==
    CASE desired = <<>> /\ rrset.exists -> "delete"
      [] desired # <<>> /\ ~rrset.exists -> "create"
      [] desired # <<>> /\ rrset.exists -> "replace"
      [] OTHER -> "none"

\* C2: when the desired set differs from the provider's, the run is not a
\* dry run and every provider call succeeds, sync_a_records issues exactly
\* one mutating call and returns True: delete when nothing is desired and an
\* RRSet existed, create when addresses are desired and none existed,
\* replace when addresses are desired and one existed, empty or not; the
\* RRSet then holds the desired addresses, or is gone after a delete.
C2_OneMutation ==
    (/\ SyncDone
     /\ SetOf(s_desired) # CurrentIPs(s_entry)
     /\ ~s_dry
     /\ ~s_fail) =>
        /\ result = Returned(TRUE)
        /\ Len(s_muts) = 1
        /\ s_muts[1].op = ExpectedOp(s_entry, s_desired)
        /\ s_muts[1].op # "none"
        /\ SetOf(s_muts[1].values) = SetOf(s_desired)
        /\ provider[s_hostname] =
              IF s_desired = <<>> THEN NoRRSet ELSE RRSet(SetOf(s_desired))

C2_Witness ==
    /\ SyncDone
    /\ ~s_dry
    /\ ~s_fail
    /\ s_entry = RRSet({})
    /\ Len(s_muts) = 1
    /\ s_muts[1].op = "replace"

\* C3: a dry run issues no mutating call, leaves the provider's RRSets as
\* they are, and returns what the call would return without dry_run: True
\* exactly when that call would go on to mutate.
C3_DryRun ==
    (InSync /\ s_dry) =>
        /\ s_muts = <<>>
        /\ provider[s_hostname] = s_entry
        /\ (SyncDone /\ result.kind = "ret") =>
              result.val = (SyncDecision(s_entry, s_desired, FALSE) = "mutate")

C3_Witness ==
    /\ SyncDone
    /\ s_dry
    /\ result = Returned(TRUE)
    /\ s_entry.exists

\* The status a code stands for, read off the code
StatusOf(code) ==
    CASE code.kind = "int" -> code.val
      [] code = StrCode(<<5, 0, 3>>) -> 503
      [] OTHER -> None

CycleDone == pc["main"] = "cycle_end"

\* The addresses the record's interfaces have in the fetched mapping
DesiredSet(rec) ==
    {interface_ips[i] : i \in SetOf(rec.interfaces)} \ {0}

\* C4: after a cycle that is no dry run and in which the fetch and every
\* provider call succeeded, every configured record with a desired address
\* has an RRSet at the provider holding exactly its desired addresses.
C4_CycleConverges ==
    (CycleDone /\ ~cfg_dry_run /\ ~c_fail) =>
        \A i \in DOMAIN Records :
            DesiredSet(Records[i]) # {} =>
                provider[Records[i].hostname] = RRSet(DesiredSet(Records[i]))

C4_Witness ==
    /\ CycleDone
    /\ ~cfg_dry_run
    /\ ~c_fail
    /\ provider["multi"] = RRSet(IPs)
    /\ c_start["multi"] = RRSet({1})
    /\ provider["home"] # c_start["home"]

\* C5, as claimed: after a cycle that is no dry run, a record none of whose
\* interfaces resolved has no RRSet at the provider.
C5_Original ==
    (CycleDone /\ ~cfg_dry_run) =>
        \A i \in DOMAIN Records :
            DesiredSet(Records[i]) = {} => ~provider[Records[i].hostname].exists

\* C5, amended: a record none of whose interfaces resolved is skipped: the
\* cycle never calls sync_a_records with an empty list, and when the cycle
\* is over the record's RRSet is what it was when the cycle began, an
\* existing one left in place.
C5_SkippedUntouched ==
    /\ InSync => s_desired # <<>>
    /\ CycleDone =>
          \A i \in DOMAIN Records :
              DesiredSet(Records[i]) = {} =>
                  provider[Records[i].hostname] = c_start[Records[i].hostname]

C5_Witness ==
    /\ CycleDone
    /\ ~cfg_dry_run
    /\ DesiredSet(Records[1]) = {}
    /\ DesiredSet(Records[2]) # {}
    /\ provider["home"].exists
    /\ provider["multi"] # c_start["multi"]

\* ---------------------------------------------------------------------
\* The client used by two threads (SpecProbe)
\* ---------------------------------------------------------------------

\* C10, as claimed: a thread about to call the provider has been let
\* through by its own wait(), and no provider call at all has been made
\* since that wait().
C10_Original ==
    \A t \in Threads : pc[t] \in CallPcs => token[t] = "fresh"

\* C10, amended: a thread about to call the provider (zone lookup, RRSet
\* lookup, create, replace or delete; first attempt, retry or health check)
\* has been let through by its own wait() since its own last provider call;
\* a call of the other thread may fall in between.
C10_OwnWait ==
    \A t \in Threads : pc[t] \in CallPcs => token[t] # "none"

C10_Witness ==
    /\ pc["main"] = "mut_call"
    /\ s_attempt > 0
    /\ token["main"] = "crossed"
    /\ pc["health"] = "idle"
    /\ h_response = 200


\* ---------------------------------------------------------------------
\* One cycle's records (Spec)
\* ---------------------------------------------------------------------

AllRecords == [i \in 1..Len(Records) |-> i]

\* C11: an exception raised while a record is processed, by sync_a_records,
\* by the verification or by the annotation updater, ends the processing of
\* that record only: run_update goes on, and when the cycle is over every
\* configured record has been taken, in order, and sync has been called for
\* each one that has an address.
C11_RecordIsolation ==
    /\ pc["main"] # "crashed"
    /\ (CycleDone /\ c_fetch = "ok") =>
          /\ c_seen = AllRecords
          /\ \A i \in DOMAIN Records :
                DesiredSet(Records[i]) # {} => i \in c_touched

C11_Witness ==
    /\ CycleDone
    /\ c_caught[1] = "verify"
    /\ c_caught[2] = "sync"
    /\ 2 \in c_touched

\* C12: when the fetch of the interface addresses fails, the cycle is over
\* with no record taken and no call made to the provider, the verifier or
\* the annotation updater, and the provider's records are what they were.
C12_FetchFailureAborts ==
    c_fetch = "failed" =>
        /\ pc["main"] \in {"cycle_end", "sleep", "sleeping", "while", "loop", "exited"}
        /\ c_seen = <<>>
        /\ c_touched = {}
        /\ c_last = 0
        /\ \A i \in DOMAIN Records : c_verify[i] = <<>> /\ c_k8s[i] = <<>>
        /\ pc["main"] \in {"cycle_end", "sleep", "sleeping", "while"} => provider = c_start

C12_Witness ==
    /\ CycleDone
    /\ c_fetch = "failed"
    /\ provider["home"] = RRSet({1})

\* C13: a record none of whose interfaces is in the fetched mapping is
\* skipped: sync_a_records is not called for it and no provider, verifier or
\* updater call is made for it, while the cycle still takes every record and
\* calls sync for the ones that have an address.
C13_SkipWithoutCalls ==
    /\ InSync => s_desired # <<>> /\ DesiredSet(Records[CurrentRecord]) # {}
    /\ \A i \in DOMAIN Records :
          (c_fetch = "ok" /\ DesiredSet(Records[i]) = {}) =>
              /\ i \notin c_touched
              /\ c_verify[i] = <<>>
              /\ c_k8s[i] = <<>>
    /\ (CycleDone /\ c_fetch = "ok") =>
          \A i \in DOMAIN Records :
              /\ i \in SetOf(c_seen)
              /\ DesiredSet(Records[i]) # {} => i \in c_touched

C13_Witness ==
    /\ CycleDone
    /\ c_fetch = "ok"
    /\ DesiredSet(Records[1]) = {}
    /\ c_touched = {2}
    /\ c_seen = AllRecords

\* The records a call has been made for in the cycle
Called ==
    c_touched \cup {i \in DOMAIN Records : c_verify[i] # <<>> \/ c_k8s[i] # <<>>}

\* C14: the records are taken in configuration order, one at a time: every
\* call made so far is for the record in hand or an earlier one, and the
\* record the latest call was made for never goes back within a cycle.
C14_InOrder ==
    /\ [](/\ c_seen = [i \in 1..Len(c_seen) |-> i]
          /\ \A i \in Called : i <= c_last /\ i \in SetOf(c_seen)
          /\ c_last # 0 => c_last \in SetOf(c_seen)
          /\ InSync => CurrentRecord = c_seen[Len(c_seen)])
    /\ [][c_last' = 0 \/ c_last' >= c_last]_vars

C14_Witness ==
    /\ CycleDone
    /\ c_touched = {1, 2}
    /\ c_verify[1] # <<>>
    /\ c_k8s[1] # <<>>
    /\ c_verify[2] # <<>>

\* C15: verify_a_records is called for a record exactly when its sync
\* returned True and the run is no dry run; it is called once, after the
\* mutating call and the verify delay, with the record's hostname and the
\* set of its desired addresses.  When an RRSet existed with other
\* addresses and every provider call of the record succeeded, the one
\* mutating call before the verification is a replace with the desired
\* addresses.
C15_VerifyWhenChanged ==
    /\ \A i \in DOMAIN Records :
          /\ Len(c_verify[i]) <= 1
          /\ c_verify[i] # <<>> =>
                /\ i \in c_changed
                /\ ~cfg_dry_run
                /\ i \in c_slept
                /\ i \in c_touched
                /\ c_verify[i][1].hostname = Records[i].hostname
                /\ c_verify[i][1].ips = DesiredSet(Records[i])
          /\ (CycleDone /\ i \in c_changed /\ ~cfg_dry_run) => Len(c_verify[i]) = 1
    /\ pc["main"] \in {"verify_sleep", "verify"} =>
          /\ result = Returned(TRUE)
          /\ s_muts # <<>>
          /\ c_verify[CurrentRecord] = <<>>
          /\ (~s_fail /\ s_entry.exists) =>
                s_muts = <<[op |-> "replace", values |-> s_desired]>>

C15_Witness ==
    /\ CycleDone
    /\ ~c_fail
    /\ c_start["home"] = RRSet({1})
    /\ provider["home"] = RRSet({2})
    /\ Len(c_verify[1]) = 1
    /\ c_verify[1][1].ips = {2}

\* The sync of the record in hand is still running
SyncRunning == InSync /\ ~SyncDone

\* C16: what verify_a_records returns decides nothing: the step that takes
\* its answer leads, for true and for false alike, to the state fixed by
\* what held before the call (the annotation updater or the next record; no
\* provider call, no change at the provider), and a record that has been
\* verified is never synced again in the cycle.
C16_VerifyAdvisory ==
    /\ [](SyncRunning => c_verify[CurrentRecord] = <<>>)
    /\ [][(/\ pc["main"] = "verify"
           /\ c_verify'[CurrentRecord] # c_verify[CurrentRecord]
           /\ c_verify'[CurrentRecord][1].answer \in {"true", "false"}) =>
              LET k == K8sCheck(TRUE) IN
                /\ pc'["main"] = IF k = "call" THEN "k8s" ELSE "record"
                /\ idx' = IF k = "call" THEN idx ELSE idx + 1
                /\ c_caught' = IF k = "attr"
                               THEN [c_caught EXCEPT ![CurrentRecord] = "attr"]
                               ELSE c_caught
                /\ UNCHANGED <<provider, zoneVars, c_touched, c_k8s, c_fail,
                               c_changed, c_seen, token>>]_vars

C16_Witness ==
    /\ CycleDone
    /\ Len(c_verify[1]) = 1
    /\ c_verify[1][1].answer = "false"
    /\ c_k8s[1] # <<>>
    /\ 2 \in c_touched

\* C17, as claimed: when the cycle is over, the annotation updater has been
\* called for a record exactly when its sync returned True, the integration
\* is enabled and its hostname is the trigger hostname.
C17_Original ==
    CycleDone =>
        \A i \in DOMAIN Records :
            c_k8s[i] # <<>> <=>
                (/\ i \in c_changed
                 /\ kubernetes = "enabled"
                 /\ Records[i].hostname = trigger_hostname)

\* ---------------------------------------------------------------------
\* main (Spec, SpecLoop)
\* ---------------------------------------------------------------------

\* C18: no failure leaves run_update: whatever fails in a cycle (the fetch,
\* a record's sync, its verification, its annotation update), main is never
\* stopped by an exception, a step of the cycle is always possible until
\* run_update has returned, and the process goes on without an exit code.
C18_NoPropagation ==
    /\ pc["main"] \notin {"crashed", "exited"}
    /\ exit_code = -1
    /\ c_done <= iteration /\ iteration <= c_done + 1
    /\ Phase(pc["main"]) = "cycle" => ENABLED Next

C18_Witness ==
    /\ pc["main"] = "sleep"
    /\ c_done = 1
    /\ c_caught[1] = "k8s"
    /\ c_caught[2] = "verify"
    /\ c_fail

\* C19: when the configuration cannot be loaded the process exits with
\* code 1 at once: no cycle has run, no router, provider, verifier or
\* updater call has been made and the health server has not been started.
C19_ConfigFailureExits ==
    config_loaded = "no" =>
        /\ pc["main"] = "exited"
        /\ exit_code = 1
        /\ iteration = 0
        /\ c_done = 0
        /\ c_fetch = "none"
        /\ Called = {}
        /\ ~zone_cache
        /\ \A t \in Threads : token[t] = "none"
        /\ ~health_server
        /\ probes = 0
        /\ ~should_exit

C19_Witness ==
    /\ config_loaded = "no"
    /\ exit_code = 1
    /\ pc["main"] = "exited"

\* C20: the shutdown flag, once set, stays set; once it is set the loop's
\* test never passes again, so no cycle starts: a signal at the loop's test
\* or in the inter-cycle sleep leaves the count of cycles where it was (zero
\* for a signal before the first test); a cycle the signal finds in flight
\* runs until run_update returns, and the process then exits with code 0.
C20_GracefulShutdown ==
    /\ [](/\ should_exit <=> sig_at # NoSignal
          /\ should_exit => iteration = sig_at.iteration
          /\ (should_exit /\ sig_at.pc = "cycle" /\ pc["main"] = "exited") =>
                c_done = sig_at.done + 1
          /\ (should_exit /\ sig_at.pc # "cycle") => c_done = sig_at.done
          /\ (should_exit /\ pc["main"] = "exited") => exit_code = 0)
    /\ [][should_exit => should_exit']_vars
    /\ [][(should_exit /\ pc["main"] = "while") =>
              pc'["main"] \in {"while", "exited"}]_vars

C20_Witness ==
    /\ pc["main"] = "exited"
    /\ exit_code = 0
    /\ ~once
    /\ sig_at.pc = "cycle"
    /\ sig_at.iteration = 1
    /\ c_done = 1
    /\ c_touched # {}

\* C21: once the shutdown flag is set, no further time.sleep(1) is entered:
\* at most the one second in progress when the signal came is slept, the
\* passes left of the interval are not used, and, the main thread taking its
\* steps and each cycle ending, the loop is left and the process exits.
C21_BoundedShutdown ==
    /\ [](should_exit =>
            /\ sig_at.sleeps <= 1
            /\ sig_at.sleeps = 1 => sig_at.pc = "sleeping"
            /\ sig_at.pc \in {"sleep", "sleeping"} => sleep_left = sig_at.left)
    /\ [][(should_exit /\ pc["main"] = "sleep") =>
              pc'["main"] \in {"sleep", "while"}]_vars
    /\ (should_exit ~> pc["main"] = "exited")

C21_Witness ==
    /\ pc["main"] = "exited"
    /\ exit_code = 0
    /\ cfg_interval = MaxInterval
    /\ sig_at.pc = "sleeping"
    /\ sig_at.left > 0
    /\ sig_at.sleeps = 1
    /\ sleep_left = sig_at.left

\* ---------------------------------------------------------------------
\* The health probe (SpecProbe)
\* ---------------------------------------------------------------------

\* hetzner.health_check() has returned for the request in hand
HealthAnswered == h_call.answer # "none"

\* C22, as claimed: whatever calls were made on the client before,
\* health_check returns True exactly when the configured zone resolves at
\* the provider, without error, at the time of the call.
C22_Original ==
    HealthAnswered =>
        (h_call.answer = "true" <=> (h_call.zone /\ h_call.failed = "none"))

\* C23: health_check never raises and never retries: it makes at most one
\* zone lookup and no other provider call, and every failure of that lookup
\* (an API error, another exception, no zone found) makes it return False.
C23_HealthNeverRaises ==
    /\ h_call.lookups <= 1
    /\ pc["health"] \in {"idle", "zone_wait", "zone_hold", "zone_call"}
    /\ h_call.failed # "none" =>
          /\ h_call.answer = "false"
          /\ h_call.lookups = 1
          /\ pc["health"] = "idle"
          /\ h_response = 503
    /\ h_call.answer = "false" => h_call.failed # "none"

C23_Witness ==
    /\ h_call.answer = "false"
    /\ h_call.failed = "api"
    /\ h_call.lookups = 1
    /\ zoneExists
    /\ pc["main"] = "mut_call"

\* C24, as claimed: the liveness route answers 200, and the readiness route
\* answers 200 exactly when the router and the provider are both reachable
\* as the request is answered.
C24_Original ==
    /\ h_call.route = "healthz" => h_response = 200
    /\ (h_call.route = "readyz" /\ pc["health"] = "idle") =>
          (h_response = 200 <=>
              (h_call.router /\ h_call.zone /\ h_call.failed = "none"))

\* C25, as claimed: no step of the probe thread writes the zone cache.
C25_Original ==
    [][(pc'["health"] # pc["health"] \/ probes' # probes) =>
          zone_cache' = zone_cache]_vars

\* C26, as claimed: the probe thread never waits for a lock the
\* reconciliation thread holds.
C26_Original ==
    ~(pc["health"] \in WaitPcs /\ lock = "main")

\* ---------------------------------------------------------------------
\* get_interface_ips (SpecRouter)
\* ---------------------------------------------------------------------

\* The entries of an interface's address list, none without a list
ListOf(info) == IF info.ipv4_kind = "list" THEN info.ipv4 ELSE <<>>

\* The positions of the list's entries that carry an address field
WithAddr(info) == {i \in DOMAIN ListOf(info) : ListOf(info)[i] # None}

\* The address the extraction policy yields for an interface's entry: that
\* of the first list entry carrying one, else the direct field
Yields(info) ==
    IF WithAddr(info) # {}
    THEN ListOf(info)[CHOOSE i \in WithAddr(info) : \A j \in WithAddr(info) : i <= j]
    ELSE info.ipaddr

\* The router's entry for the k-th configured interface
InfoOf(k) == interface_data[opn_interfaces[k].opnsense_name]

\* C27: the mapping get_interface_ips returns has only configured logical
\* names as keys; a logical name is a key exactly when its interface is in
\* the router's answer and yields a non-empty address, and it then maps to
\* an address; an absent interface or one without address is left out, the
\* call still returns, and the mapping may be empty.
C27_ResolvedNamesOnly ==
    g_pc = "returned" =>
        /\ DOMAIN g_result \subseteq LogicalNames
        /\ \A k \in DOMAIN opn_interfaces :
              /\ opn_interfaces[k].logical_name \in DOMAIN g_result <=>
                    (InfoOf(k).present /\ Yields(InfoOf(k)) \notin {None, 0})
              /\ opn_interfaces[k].logical_name \in DOMAIN g_result =>
                    g_result[opn_interfaces[k].logical_name] \in IPs
        /\ (\A k \in DOMAIN opn_interfaces :
                ~InfoOf(k).present \/ Yields(InfoOf(k)) \in {None, 0})
              => DOMAIN g_result = {}

C27_Witness ==
    /\ g_pc = "returned"
    /\ InfoOf(1) = IfaceInfo("list", <<>>, None)
    /\ InfoOf(2) = IfaceInfo("list", <<1>>, None)
    /\ DOMAIN g_result = {"wan2"}

\* C28, as claimed: the address returned for an interface is the first
\* entry of its address list when the list is present and not empty and
\* that entry has an address, and otherwise its direct address field.
C28_Original ==
    g_pc = "returned" =>
        \A k \in DOMAIN opn_interfaces :
            opn_interfaces[k].logical_name \in DOMAIN g_result =>
                g_result[opn_interfaces[k].logical_name] =
                    IF ListOf(InfoOf(k)) # <<>> /\ ListOf(InfoOf(k))[1] # None
                    THEN ListOf(InfoOf(k))[1]
                    ELSE InfoOf(k).ipaddr

\* C28, amended: the address returned for an interface is that of the first
\* entry of its address list that carries an address field, when the list
\* has such an entry, and otherwise its direct address field: the direct
\* field is used only when no entry of the list carries an address.
C28_FirstListedAddress ==
    g_pc = "returned" =>
        \A k \in DOMAIN opn_interfaces :
            LET name == opn_interfaces[k].logical_name IN
              /\ name \in DOMAIN g_result => g_result[name] = Yields(InfoOf(k))
              /\ (name \in DOMAIN g_result /\ WithAddr(InfoOf(k)) # {}) =>
                    g_result[name] \in SetOf(ListOf(InfoOf(k)))
              /\ (InfoOf(k).present /\ WithAddr(InfoOf(k)) = {}
                     /\ InfoOf(k).ipaddr \in IPs) =>
                    (name \in DOMAIN g_result /\ g_result[name] = InfoOf(k).ipaddr)

C28_Witness ==
    /\ g_pc = "returned"
    /\ InfoOf(1) = IfaceInfo("list", <<None, 2>>, 1)
    /\ "wan" \in DOMAIN g_result
    /\ g_result["wan"] = 2

\* C29, as claimed: a call sends one GET, and it raises only after a
\* transport failure or a status that is not 2xx.
C29_Original ==
    /\ g_gets = g_calls
    /\ g_pc = "raised" => g_status \in {"transport", "non2xx"}

\* C29, amended: every call sends exactly one GET, nothing being kept from
\* one call to the next; the call raises exactly when the GET failed at the
\* transport level, gave a status that is not 2xx, or gave a body that
\* cannot be decoded; it then has built no mapping, and otherwise returns
\* the mapping of the answer just received.
C29_OneGetOrRaise ==
    /\ g_gets = g_calls
    /\ g_pc = "raised" <=>
          (g_pc # "idle" /\ g_status \in {"transport", "non2xx", "undecodable"})
    /\ g_pc = "raised" => DOMAIN g_result = {}
    /\ g_pc \in {"loop", "returned"} => g_status = "ok"
    /\ g_pc = "returned" =>
          \A k \in DOMAIN opn_interfaces :
              opn_interfaces[k].logical_name \in DOMAIN g_result =>
                  g_result[opn_interfaces[k].logical_name]
                      \in {InfoOf(k).ipaddr} \cup SetOf(ListOf(InfoOf(k)))

C29_Witness ==
    /\ g_calls = 2
    /\ g_gets = 2
    /\ g_pc = "raised"
    /\ g_status = "non2xx"
    /\ DOMAIN g_result = {}

\* ---------------------------------------------------------------------
\* verify_a_records (SpecVerify)
\* ---------------------------------------------------------------------

\* C30: verify_a_records returns False, without any A query, when no
\* authoritative nameserver resolves; True when the query succeeds with
\* exactly the expected set and False when it succeeds with another set (a
\* strict superset included); True exactly when nothing is expected after
\* NXDOMAIN or NoAnswer; False after any other failure of the query; and it
\* never raises because of the query.
C30_VerifyAnswers ==
    /\ v_pc = "returned" =>
          /\ v_ret \in {"true", "false"}
          /\ (\A i \in DOMAIN v_ns : ~v_ns[i]) =>
                (v_ret = "false" /\ v_query = NoQuery)
          /\ (\E i \in DOMAIN v_ns : v_ns[i]) => v_query # NoQuery
          /\ v_query.kind = "answer" =>
                (v_ret = "true" <=> v_query.ips = expected_ips)
          /\ (v_query.kind = "answer" /\ expected_ips \subseteq v_query.ips
                 /\ expected_ips # v_query.ips) => v_ret = "false"
          /\ v_query.kind \in {"NXDOMAIN", "NoAnswer"} =>
                (v_ret = "true" <=> expected_ips = {})
          /\ v_query.kind = "other" => v_ret = "false"
    /\ v_pc = "raised" => (v_query = NoQuery /\ ~v_conf)
    /\ v_query # NoQuery => v_pc = "returned"

C30_Witness ==
    /\ v_pc = "returned"
    /\ expected_ips = {1}
    /\ v_query = [kind |-> "answer", ips |-> {1, 2}]
    /\ v_ret = "false"
    /\ ~v_ns[1]
    /\ v_ns[2]

\* ---------------------------------------------------------------------
\* The zone cache (SpecSeq, SpecSync, SpecProbe)
\* ---------------------------------------------------------------------

ZonePcs == {"zone_wait", "zone_hold", "zone_call"}

\* C31: with the client used from one thread of control, zones.get_all finds
\* the zone at most once: the zone is cached exactly when one lookup has
\* found it, and with the zone cached no caller (sync, the RRSet lookup,
\* health_check) is on its way to another zone lookup.
C31_OneZoneLookup ==
    /\ zone_lookups <= 1
    /\ zone_cache <=> zone_lookups = 1
    /\ zone_cache => \A t \in Threads : pc[t] \notin ZonePcs

C31_Witness ==
    /\ zone_cache
    /\ zone_lookups = 1
    /\ s_calls = 2
    /\ pc["main"] = "sync_done"
    /\ s_api = {"rrset"}
    /\ h_call.answer = "true"
    /\ h_call.lookups = 0

\* C32, as claimed: a sync_a_records call that ends with the not-found
\* error has invoked the function exactly once.
C32_Original ==
    (pc["main"] = "sync_done" /\ result = Raised(ZoneNotFound)) =>
        s_invocations = 1

\* C32, amended: a zone name that resolves to no zone is never cached, so
\* that every call looks it up again; the wrapper never backs off from the
\* not-found error: the attempt that hit it is the call's last, and the call
\* has made no RRSet lookup and no mutating call.  Attempts before it are
\* the retries of zone lookups that failed with a retryable status.
C32_NotFoundPropagates ==
    /\ ~zoneExists => (~zone_cache /\ zone_lookups = 0)
    /\ ~zone_cache => pc["main"] \notin {"rrset_wait", "rrset_hold", "rrset_call",
                                        "mut_wait", "mut_hold", "mut_call"}
    /\ pc["main"] = "backoff" =>
          (exc.type = "HetznerAPIError" /\ IsRetryable(exc))
    /\ (pc["main"] = "sync_done" /\ result = Raised(ZoneNotFound)) =>
          /\ ~zone_cache
          /\ s_api = {"zone"}
          /\ s_muts = <<>>
          /\ ~s_took
          /\ s_invocations = s_attempt + 1
          /\ s_attempt <= sync_max_retries

C32_Witness ==
    /\ pc["main"] = "sync_done"
    /\ result = Raised(ZoneNotFound)
    /\ s_calls = 2
    /\ s_invocations = 1
    /\ s_api = {"zone"}

\* ---------------------------------------------------------------------
\* --once (SpecLoop)
\* ---------------------------------------------------------------------

\* C33, as claimed: with --once, main leaves the loop having run exactly
\* one update cycle.
C33_Original ==
    (once /\ pc["main"] = "exited" /\ config_loaded = "yes") => c_done = 1

\* C33, amended: with --once the loop runs at most one update cycle and never
\* enters the inter-cycle sleep; once the cycle has returned, whatever its
\* outcome, main has left the loop and exits with code 0; the loop is left
\* without a cycle only when the shutdown flag was set before the first
\* iteration.
C33_OnceOneCycle ==
    once =>
        /\ iteration <= 1
        /\ c_done <= 1
        /\ pc["main"] \notin {"sleep", "sleeping"}
        /\ sleep_left = 0
        /\ c_done = 1 => (pc["main"] = "exited" /\ exit_code = 0)
        /\ (pc["main"] = "exited" /\ config_loaded = "yes" /\ c_done = 0) =>
              (should_exit /\ sig_at.iteration = 0 /\ iteration = 0)

C33_Witness ==
    /\ once
    /\ pc["main"] = "exited"
    /\ c_done = 1
    /\ c_fetch = "ok"
    /\ c_fail
    /\ ~should_exit

\* ---------------------------------------------------------------------
\* The desired list (Spec)
\* ---------------------------------------------------------------------

\* The record has an interface that is not in the fetched mapping
SomeMissing(rec) == \E i \in SetOf(rec.interfaces) : interface_ips[i] = 0

\* C34: the list a cycle hands to sync_a_records for a record is strictly
\* increasing (sorted, without duplicates) and holds exactly the addresses
\* of the record's interfaces that are in the fetched mapping; a record
\* with an interface missing from the mapping and another one present is
\* still synced, with the addresses of the ones present.
C34_DesiredList ==
    /\ (InSync /\ iteration > 0) =>
          LET rec == Records[CurrentRecord] IN
            /\ s_hostname = rec.hostname
            /\ \A i, j \in DOMAIN s_desired : i < j => s_desired[i] < s_desired[j]
            /\ SetOf(s_desired) = DesiredSet(rec)
    /\ \A i \in DOMAIN Records :
          (i \in SetOf(c_seen) /\ DesiredSet(Records[i]) # {}) =>
              \/ i \in c_touched
              \/ (CurrentRecord = i /\ InSync)

C34_Witness ==
    /\ InSync
    /\ CurrentRecord = 2
    /\ SomeMissing(Records[2])
    /\ interface_ips["wan2"] = 2
    /\ s_desired = <<2>>
    /\ 2 \in c_touched

\* ---------------------------------------------------------------------
\* The backoff delays (SpecRetry)
\* ---------------------------------------------------------------------

\* min(base_delay * 2^k, max_delay), in seconds
CappedDelay(k) ==
    IF base_delay * Pow2(k) <= r_max_delay THEN base_delay * Pow2(k)
    ELSE r_max_delay

\* C35: the sleep before retry number k (k = 0 for the first retry) lasts at
\* least 0.5 times and less than 1.5 times min(base_delay * 2^k, max_delay);
\* a sleep is only taken after a failure that is retried with attempts
\* left, every sleep is followed by another invocation, and the wrapper
\* sleeps at most max_retries times.
C35_BackoffBounds ==
    /\ r_pc = "sleep" =>
          /\ JitterSteps * CappedDelay(r_attempt) <= r_delay
          /\ r_delay < 3 * JitterSteps * CappedDelay(r_attempt)
          /\ r_attempt < r_max
          /\ r_hist[Len(r_hist)] \in {"retryable", "nonretryable"}
          /\ r_hist[Len(r_hist)] = "nonretryable" => ~r_has_pred
    /\ r_sleeps = r_attempt
    /\ r_sleeps <= r_max
    /\ r_pc \in {"raised", "returned"} => r_sleeps = Len(r_hist) - 1

C35_Witness ==
    /\ r_pc = "sleep"
    /\ r_max = 3
    /\ r_attempt = 2
    /\ r_sleeps = 2
    /\ r_max_delay = default_max_delay
    /\ r_delay = CappedDelay(2) * (3 * JitterSteps - 2)

\* C36, as claimed: no sleep of the wrapper is longer than max_delay.
C36_Original ==
    r_pc = "sleep" => r_delay <= 2 * JitterSteps * r_max_delay

\* ---------------------------------------------------------------------
\* What sync reports after a mutation (SpecSync)
\* ---------------------------------------------------------------------

\* C37, as claimed: a sync_a_records call that returns after one of its
\* mutating calls took effect at the provider returns True.
C37_Original ==
    (pc["main"] = "sync_done" /\ result.kind = "ret" /\ s_took) => result.val

\* ---------------------------------------------------------------------
\* Two cycles in a row (SpecTwice)
\* ---------------------------------------------------------------------

\* run_update is running, or has just returned to the loop, after an
\* earlier call of it in which the fetch and every provider call succeeded,
\* and it goes on with the same mapping as that call
SecondCycle ==
    /\ c_done >= 1
    /\ iteration = c_done + 1
    /\ pc["main"] # "loop"
    /\ c_prev.ran
    /\ c_prev.ok
    /\ ~cfg_dry_run
    /\ interface_ips = c_prev.ips

\* C38: a cycle that follows a cycle without a dry run in which the fetch
\* and every provider call succeeded, and that goes on with the same
\* interface addresses in front of the records that cycle left, issues no
\* mutating call, leaves the provider's records as they are, has no record
\* whose sync returns True, and runs no propagation sleep, no verification
\* and no annotation update.
C38_Idempotent ==
    SecondCycle =>
        /\ s_muts = <<>>
        /\ "mutate" \notin s_api
        /\ provider = c_start
        /\ c_changed = {}
        /\ c_slept = {}
        /\ \A i \in DOMAIN Records : c_verify[i] = <<>> /\ c_k8s[i] = <<>>
        /\ (SyncDone /\ result.kind = "ret") => ~result.val

C38_Witness ==
    /\ SecondCycle
    /\ CycleDone
    /\ ~c_fail
    /\ c_touched = {1, 2}
    /\ provider["multi"] = RRSet(IPs)
    /\ provider["home"] = RRSet({2})

\* ---------------------------------------------------------------------
\* The zone lookup of two threads (SpecProbe)
\* ---------------------------------------------------------------------

\* C39, as claimed: with the health probe thread and the main thread using
\* the client at the same time, zones.get_all finds the zone at most once.
C39_Original == zone_lookups <= 1

====
